---- MODULE Spec2Model ----
(***************************************************************************)
(* Waveform synthesis and trigger-gated task orchestration of the DAQ      *)
(* class (base/1.0.0/model/devices/daq/SyntheticDAQ.py).                   *)
(*                                                                         *)
(* Units.  Python floats are modelled by scaled integers:                  *)
(*   samplerate in Hz, sweeptime in milliseconds, percentages in percent,  *)
(*   voltages / amplitudes / offsets in hundredths of a volt.              *)
(* Arrays are sequences (index 1 is numpy index 0).                        *)
(***************************************************************************)
EXTENDS Integers, Sequences, FiniteSets, TLC

VARIABLES
    state,      \* self.state: the parameter store (key -> value)
    wf,         \* the waveform attributes of self (samples, *_waveform, bundles)
    files,      \* the file system: path -> table (sequence of rows)
    hw,         \* the four task handles of self and what the adapter recorded
    lastOp,     \* the last method called on the DAQ object, with its outcome
    nsets,      \* number of calls so far of the handler or of a method on its own
    ncreates,   \* number of create_tasks calls so far
    nfaults,    \* number of adapter faults injected so far
    inflight,   \* history: a parameter change was received while a sweep was in
                \* flight, and write_waveforms_to_tasks has not run since
    stage,      \* the Stage_GUI_Controller, its view's timers and its parent
    popup       \* the WaveformPopupController, its view's timers and its parent

vars == <<state, wf, files, hw, lastOp, nsets, ncreates, nfaults,
          inflight, stage, popup>>

-----------------------------------------------------------------------------
(* Bounds of the model *)

\* calls of state_request_handler, and of a recompute, load or save method on
\* its own, explored per behaviour
MaxSets == 2
\* create_tasks calls explored per behaviour
MaxSweeps == 2
\* create_tasks calls explored per behaviour when every public method can be
\* called
MaxCreates == 1
\* an adapter fault can be injected at the 1st .. MaxFault-th adapter call of a method
MaxFault == 3
\* position writes and button presses on the stage tab per behaviour
MaxWrites == 3
\* the clock of the GUI advances in steps of TickMs up to MaxTime (milliseconds)
TickMs == 500
MaxTime == 2500
\* adapter faults injected per behaviour
MaxFaults == 1
\* the process can stop after the 1st .. MaxCrashStep-th file-system step of a
\* save
MaxCrashStep == 5

\* the events of the user handled by the waveform popup
MaxPopupEvents == 3

\* the time the waveform popup is followed for, in ms
MaxPopupTime == 1000

-----------------------------------------------------------------------------
(* Small helpers *)

Max(a, b) == IF a > b THEN a ELSE b

\* Python int(n/d) for d > 0: truncation toward zero
IntTrunc(n, d) == IF n >= 0 THEN n \div d ELSE -((-n) \div d)

Abs(n) == IF n < 0 THEN -n ELSE n

\* floor(log2(n)) for an integer n >= 1
RECURSIVE FloorLog2(_)
FloorLog2(n) == IF n < 2 THEN 0 ELSE 1 + FloorLog2(n \div 2)

\* floor(log2(num / den)) for integers num, den >= 1
RECURSIVE FloorLog2Ratio(_, _)
FloorLog2Ratio(num, den) ==
    IF num >= den THEN FloorLog2(num \div den)
    ELSE FloorLog2Ratio(2 * num, den) - 1

\* 2^s modulo 1000, for s >= 0 (by squaring)
RECURSIVE Pow2Mod1000(_)
Pow2Mod1000(s) ==
    IF s = 0 THEN 1
    ELSE IF s % 2 = 1 THEN (2 * Pow2Mod1000(s - 1)) % 1000
    ELSE CHOOSE out \in { (h * h) % 1000 : h \in { Pow2Mod1000(s \div 2) } } : TRUE

IsPowerOfTwo(n) == n = 2 ^ FloorLog2(n)

\* The product of an integer rate (Hz) and a time given as a float of seconds
\* is a double.  With the time a whole number of milliseconds ms, the double
\* nearest to ms/1000 is M * 2^(-s) with 2^52 <= M < 2^53, and it lies below
\* ms/1000 by rho / 1000 * 2^(-s), rho the remainder of ms * 2^s by 1000
\* (when rho < 500; above, or equal, otherwise).  Where the exact product k
\* is a whole number and rate times that shortfall exceeds half the distance
\* from k to the double before it, the double product is below k.  (Where the
\* exact product is not whole it is at least 1/1000 away from a whole number,
\* which rounding never crosses.)  Holds for 1 <= rate, 1 <= ms.
FloatProductBelow(rate, ms) ==
    /\ (rate * ms) % 1000 = 0
    /\ \E k \in { (rate * ms) \div 1000 }, e \in { FloorLog2Ratio(ms, 1000) } :
         \E rho \in { ((ms % 1000) * Pow2Mod1000(52 - e)) % 1000 } :
            /\ 0 < rho
            /\ rho < 500
            /\ rate * rho > (IF IsPowerOfTwo(k) THEN 250 ELSE 500)
                            * 2 ^ (FloorLog2(k) - e)

\* Python int(rate * seconds), seconds the float ms/1000: the double product,
\* truncated toward zero
IntOfFloatProduct(rate, ms) ==
    IF rate = 0 \/ ms = 0 THEN 0
    ELSE LET n == IntTrunc(Abs(rate) * Abs(ms), 1000)
                  - (IF FloatProductBelow(Abs(rate), Abs(ms)) THEN 1 ELSE 0)
         IN  IF (rate < 0) = (ms < 0) THEN n ELSE -n

\* Python round(n/d) for n >= 0, d > 0: round half to even
RoundHalfEven(n, d) ==
    LET q == n \div d
        r == n % d
    IN  IF 2 * r < d THEN q
        ELSE IF 2 * r > d THEN q + 1
        ELSE IF q % 2 = 0 THEN q ELSE q + 1

\* whether the double product of rate and ms/1000 lies below (-1), on (0) or
\* above (1) the exact product when that is k + 1/2 (rate * ms = 1000 * k +
\* 500): as for FloatProductBelow, with the distance from k + 1/2 to its
\* neighbouring doubles (k + 1/2 is a power of two only for k = 0)
FloatProductOffHalf(rate, ms) ==
    CHOOSE out \in
      { IF /\ 0 < c[3] /\ c[3] < 500
           /\ rate * c[3] > (IF c[1] = 0 THEN 250 ELSE 500) * 2 ^ c[2]
        THEN -1
        ELSE IF /\ c[3] > 500
                /\ rate * (1000 - c[3]) > 500 * 2 ^ c[2]
        THEN 1
        ELSE 0
        : c \in { << k,
                     (IF k = 0 THEN -1 ELSE FloorLog2(k)) - e,
                     ((ms % 1000) * Pow2Mod1000(52 - e)) % 1000 >>
                  : k \in { (rate * ms) \div 1000 },
                    e \in { FloorLog2Ratio(ms, 1000) } } } : TRUE

\* Python round(rate * seconds), seconds the float ms/1000: the double
\* product, rounded half to even.  The double differs from the exact product
\* by less than 1/1000, so it matters only where the exact product is k + 1/2
RoundOfFloatProduct(rate, ms) ==
    IF rate = 0 \/ ms = 0 THEN 0
    ELSE CHOOSE out \in
      { IF (rate < 0) = (ms < 0) THEN n ELSE -n
        : n \in
          { IF (a[1] * a[2]) % 1000 # 500
            THEN RoundHalfEven(a[1] * a[2], 1000)
            ELSE CASE FloatProductOffHalf(a[1], a[2]) = -1 ->
                        (a[1] * a[2]) \div 1000
                   [] FloatProductOffHalf(a[1], a[2]) = 1 ->
                        (a[1] * a[2]) \div 1000 + 1
                   [] OTHER -> RoundHalfEven(a[1] * a[2], 1000)
            : a \in { << Abs(rate), Abs(ms) >> } } } : TRUE

\* np.zeros((n)); a negative dimension is an error in numpy
Zeros(n) == [i \in 1..n |-> 0]

-----------------------------------------------------------------------------
(* Configuration read from the session / cfg object *)

\* self.cfg.laser_designation: laser line -> row of the laser buffer
laser_designation == [l \in {"488nm", "561nm"} |-> IF l = "488nm" THEN 0 ELSE 1]

\* state['max_laser_voltage'], in hundredths of a volt (5 V)
max_laser_voltage == 500

\* the calibration table the session names as ETL_cfg_file
CfgPath == "etl.csv"


\* str(x) of a float x (given in hundredths), as the csv writer formats it:
\* sign, integer part, and the fraction digits without trailing zeros (at
\* least one digit): 60 is "0.6", -125 is "-1.25", 100 is "1.0"
str(n) ==
    [neg  |-> n < 0,
     int  |-> Abs(n) \div 100,
     frac |-> IF Abs(n) % 10 = 0 THEN << (Abs(n) % 100) \div 10 >>
              ELSE << (Abs(n) % 100) \div 10, Abs(n) % 10 >>]

\* a cell of the table whose text is a decimal number / is other text
Num(n) == [kind |-> "num", val |-> str(n)]
Txt(s) == [kind |-> "text", val |-> s]

\* float(cell) of a cell that holds a decimal number, in hundredths
float(cell) ==
    LET t == cell.val
        f == IF Len(t.frac) = 1 THEN 10 * t.frac[1]
             ELSE 10 * t.frac[1] + t.frac[2]
        v == 100 * t.int + f
    IN  IF t.neg THEN -v ELSE v

Row(obj, wl, zoom, lo, la, ro, ra) ==
    [Objective |-> obj, Wavelength |-> wl, Zoom |-> zoom,
     ETL_Left_Offset |-> lo, ETL_Left_Amp |-> la,
     ETL_Right_Offset |-> ro, ETL_Right_Amp |-> ra]

InitialTable ==
    << Row("1x", "488nm", "1x", Num(10), Num(20), Num(30), Num(40)),
       Row("1x", "561nm", "1x", Num(12), Num(22), Num(32), Num(42)),
       Row("1x", "488nm", "2x", Num(14), Num(24), Num(34), Num(44)) >>

-----------------------------------------------------------------------------
(* waveforms.py: the four waveform shapes *)

\* number of samples every shape is generated over:
\* round(samplerate * sweeptime)
NSamples(samplerate, sweeptime) == RoundOfFloatProduct(samplerate, sweeptime)

single_pulse(samplerate, sweeptime, delay, pulsewidth, amplitude, offset) ==
    CHOOSE out \in
      { LET lo == IntTrunc(n * delay, 100)
            hi == lo + IntTrunc(n * pulsewidth, 100)
        IN  [i \in 1..n |->
                IF lo < i /\ i <= hi THEN amplitude + offset ELSE offset]
        : n \in { NSamples(samplerate, sweeptime) } } : TRUE

tunable_lens_ramp(samplerate, sweeptime, delay, rise, fall, amplitude, offset) ==
    CHOOSE out \in
      { LET d == IntTrunc(n * delay, 100)
            r == IntTrunc(n * rise, 100)
            f == IntTrunc(n * fall, 100)
        IN  [i \in 1..n |->
                IF i <= d THEN offset
                ELSE IF i <= d + r
                     THEN offset + IntTrunc(amplitude * (i - d), r)
                ELSE IF i <= d + r + f
                     THEN offset + IntTrunc(amplitude * (d + r + f - i), f)
                ELSE offset]
        : n \in { NSamples(samplerate, sweeptime) } } : TRUE

sawtooth(samplerate, sweeptime, frequency, amplitude, offset, dutycycle, phase) ==
    CHOOSE out \in
      { LET \* period, in samples (sweeptime in ms, frequency in Hz)
            p  == IF frequency > 0 THEN Max(1, samplerate \div frequency)
                  ELSE Max(1, n)
            up == Max(1, IntTrunc(p * dutycycle, 100))
        IN  [i \in 1..n |->
                LET t == (i - 1 + phase) % p
                IN  IF t < up
                    THEN offset - (amplitude \div 2) + IntTrunc(amplitude * t, up)
                    ELSE offset + (amplitude \div 2)
                         - IntTrunc(amplitude * (t - up), Max(1, p - up))]
        : n \in { NSamples(samplerate, sweeptime) } } : TRUE

dc_value(samplerate, sweeptime, amplitude, offset) ==
    [i \in 1..NSamples(samplerate, sweeptime) |-> amplitude + offset]

-----------------------------------------------------------------------------
(* Waveform attributes of the DAQ object and their recomputation           *)
(*                                                                         *)
(* Notation.  A local value that is used more than once is bound with      *)
(*     CHOOSE out \in { e(x) : x \in { v } } : TRUE                         *)
(* which is e(v) with v evaluated once (in an action: \E x \in { v } : ..). *)

Ok(st, w) == [state |-> st, wf |-> w, err |-> "none"]
Raise(st, w, e) == [state |-> st, wf |-> w, err |-> e]

\* self.samples = int(samplerate*sweeptime), sweeptime a float of seconds
calculate_samples(st) == IntOfFloatProduct(st["samplerate"], st["sweeptime"])

create_etl_waveforms(st, w) ==
    [w EXCEPT
        !.etl_l_waveform =
            tunable_lens_ramp(st["samplerate"], st["sweeptime"],
                              st["etl_l_delay_percent"],
                              st["etl_l_ramp_rising_percent"],
                              st["etl_l_ramp_falling_percent"],
                              st["etl_l_amplitude"], st["etl_l_offset"]),
        !.etl_r_waveform =
            tunable_lens_ramp(st["samplerate"], st["sweeptime"],
                              st["etl_r_delay_percent"],
                              st["etl_r_ramp_rising_percent"],
                              st["etl_r_ramp_falling_percent"],
                              st["etl_r_amplitude"], st["etl_r_offset"])]

create_low_res_galvo_waveforms(st, w) ==
    [w EXCEPT
        !.galvo_l_waveform =
            sawtooth(st["samplerate"], st["sweeptime"],
                     st["galvo_l_frequency"], st["galvo_l_amplitude"],
                     st["galvo_l_offset"], st["galvo_l_duty_cycle"],
                     st["galvo_l_phase"])]

\* amplitude=0.5, offset=0 are literals of the call
create_high_res_galvo_waveforms(st, w) ==
    [w EXCEPT
        !.galvo_r_waveform = dc_value(st["samplerate"], st["sweeptime"], 50, 0)]

\* called by create_waveforms; computes both galvo waveforms
create_galvo_waveforms(st, w) ==
    create_high_res_galvo_waveforms(st, create_low_res_galvo_waveforms(st, w))

\* Returns [wf, err].  The laser row is looked up after the template has been
\* computed; an unknown line raises KeyError before laser_waveforms is assigned.
create_laser_waveforms(st, w) ==
    LET zero_waveform == Zeros(w.samples)
        laser_voltage == (max_laser_voltage * st["intensity"]) \div 100
        template == single_pulse(st["samplerate"], st["sweeptime"],
                                 st["laser_l_delay_percent"],
                                 st["laser_l_pulse_percent"],
                                 laser_voltage, 0)
    IN  IF st["laser"] \notin DOMAIN laser_designation
        THEN [wf |-> w, err |-> "KeyError"]
        ELSE IF Len(template) # Len(zero_waveform)
        THEN [wf |-> w, err |-> "ValueError"]
        ELSE [wf |-> [w EXCEPT !.laser_waveforms =
                        [r \in 1..Cardinality(DOMAIN laser_designation) |->
                            IF r = laser_designation[st["laser"]] + 1
                            THEN template ELSE zero_waveform]],
              err |-> "none"]

\* a stack that has the lens rows before the galvo rows
bundle_galvo_and_etl_waveforms_lens_first(w) ==
    [w EXCEPT !.galvo_and_etl_waveforms =
        << w.etl_l_waveform, w.etl_r_waveform,
           w.galvo_l_waveform, w.galvo_r_waveform >>]

bundle_galvo_and_etl_waveforms(w) ==
    [w EXCEPT !.galvo_and_etl_waveforms =
        << w.galvo_l_waveform, w.galvo_r_waveform,
           w.etl_l_waveform, w.etl_r_waveform >>]

\* Returns [wf, err]
create_waveforms(st, w) ==
    CHOOSE out \in
      { IF r4.err # "none" THEN r4
        ELSE [wf |-> bundle_galvo_and_etl_waveforms(r4.wf), err |-> "none"]
        : r4 \in { create_laser_waveforms(st, w3)
          : w3 \in { create_galvo_waveforms(st, w2)
            : w2 \in { create_etl_waveforms(st, w1)
              : w1 \in { [w EXCEPT !.samples = calculate_samples(st)] } } } } }
      : TRUE

-----------------------------------------------------------------------------
(* Calibration table: load *)

SetKey(st, key, value) ==
    [k \in DOMAIN st \cup {key} |-> IF k = key THEN value ELSE st[k]]

IsFloat(cell) == cell.kind = "num"

\* The loop over the rows of the DictReader.  Returns [state, err].
\* (The prints under self.verbose, lines 238-250, change no attribute and are
\* not part of the model.)
RECURSIVE LoadRows(_, _, _, _)
LoadRows(st, rows, laser, zoom) ==
    IF rows = << >> THEN [state |-> st, err |-> "none"]
    ELSE LET row == Head(rows)
         IN  IF row.Wavelength = laser /\ row.Zoom = zoom
             THEN IF /\ IsFloat(row.ETL_Left_Offset) /\ IsFloat(row.ETL_Left_Amp)
                     /\ IsFloat(row.ETL_Right_Offset) /\ IsFloat(row.ETL_Right_Amp)
                  THEN LoadRows([st EXCEPT
                                    !["etl_l_offset"] = float(row.ETL_Left_Offset),
                                    !["etl_l_amplitude"] = float(row.ETL_Left_Amp),
                                    !["etl_r_offset"] = float(row.ETL_Right_Offset),
                                    !["etl_r_amplitude"] = float(row.ETL_Right_Amp)],
                                Tail(rows), laser, zoom)
                  ELSE [state |-> st, err |-> "ValueError"]
             ELSE LoadRows(st, Tail(rows), laser, zoom)

\* Returns [state, wf, err]
update_etl_parameters_from_csv(st, w, fs, cfg_path, laser, zoom) ==
    IF cfg_path \notin DOMAIN fs THEN Raise(st, w, "FileNotFoundError")
    ELSE CHOOSE out \in
           { IF r.err # "none" THEN Raise(r.state, w, r.err)
             ELSE CHOOSE out2 \in
                    { [state |-> r.state, wf |-> c.wf, err |-> c.err]
                      : c \in { create_waveforms(r.state, w) } } : TRUE
             : r \in { LoadRows(st, fs[cfg_path], laser, zoom) } } : TRUE

\* a load for a zoom that also stores the zoom
update_etl_parameters_from_zoom_storing_zoom(st, w, fs, zoom) ==
    update_etl_parameters_from_csv(SetKey(st, "zoom", zoom), w, fs,
                                   st["ETL_cfg_file"], st["laser"], zoom)

update_etl_parameters_from_zoom(st, w, fs, zoom) ==
    update_etl_parameters_from_csv(st, w, fs, st["ETL_cfg_file"], st["laser"], zoom)

update_etl_parameters_from_laser(st, w, fs, laser) ==
    update_etl_parameters_from_csv(st, w, fs, st["ETL_cfg_file"], laser, st["zoom"])

-----------------------------------------------------------------------------
(* Calibration table: save *)

\* fieldnames of the DictWriter
fieldnames ==
    {"Objective", "Wavelength", "Zoom", "ETL_Left_Offset", "ETL_Left_Amp",
     "ETL_Right_Offset", "ETL_Right_Amp"}

\* etl_cfg_file + '_tmp', for the paths of this model
tmp_etl_cfg_file(etl_cfg_file) ==
    IF etl_cfg_file = CfgPath THEN "etl.csv_tmp" ELSE "missing.csv_tmp"

\* the file system after path p has been (over)written / removed
FsWrite(fs, p, content) ==
    [q \in DOMAIN fs \cup {p} |-> IF q = p THEN content ELSE fs[q]]
FsRemove(fs, p) == [q \in DOMAIN fs \ {p} |-> fs[q]]

\* a dict that has the left offset and the left amplitude in each other's column
SavedRow_left_columns_swapped(st) ==
    Row("1x", st["laser"], st["zoom"],
        Num(st["etl_l_amplitude"]), Num(st["etl_l_offset"]),
        Num(st["etl_r_offset"]), Num(st["etl_r_amplitude"]))

\* the dict written in place of a matching row
SavedRow(st) ==
    Row("1x", st["laser"], st["zoom"],
        Num(st["etl_l_offset"]), Num(st["etl_l_amplitude"]),
        Num(st["etl_r_offset"]), Num(st["etl_r_amplitude"]))

IsMatch(st, row) == row.Wavelength = st["laser"] /\ row.Zoom = st["zoom"]

\* DictWriter.writerow(row) of a row as read: ValueError when the row has a
\* key that is no fieldname; a fieldname the row lacks is written empty
writerow_raises(row) == ~(DOMAIN row \subseteq fieldnames)
\* (variant: the Objective column is written empty)
writerow_without_objective(row) ==
    [f \in fieldnames |->
        IF f = "Objective" THEN ""
        ELSE IF f \in DOMAIN row THEN row[f]
        ELSE IF f \in {"Wavelength", "Zoom"} THEN ""
        ELSE Txt("")]

writerow(row) ==
    [f \in fieldnames |->
        IF f \in DOMAIN row THEN row[f]
        ELSE IF f \in {"Objective", "Wavelength", "Zoom"} THEN ""
        ELSE Txt("")]

\* a loop that writes the in-memory values in place of every row
OutRow_every_row_replaced(st, row) == SavedRow(st)

\* what the loop writes for a row of the input
OutRow(st, row) == IF IsMatch(st, row) THEN SavedRow(st) ELSE writerow(row)

\* The file-system steps of save_etl_parameters_to_csv: the temporary file is
\* created, the rows are written to it one by one, the table is removed, the
\* temporary file is renamed.  Returns [steps, err, old, new]: steps is the file
\* system after each step, old the table read, new the table the loop writes.
save_etl_parameters_to_csv_steps(st, fs) ==
    LET path == st["ETL_cfg_file"]
        tmp  == tmp_etl_cfg_file(path)
    IN  IF path \notin DOMAIN fs
        THEN [steps |-> << >>, err |-> "FileNotFoundError",
              old |-> << >>, new |-> << >>]
        ELSE CHOOSE out \in
          { LET bad == {i \in 1..Len(rows) :
                          ~IsMatch(st, rows[i]) /\ writerow_raises(rows[i])}
                n   == IF bad = {} THEN Len(rows)
                       ELSE (CHOOSE i \in bad : \A j \in bad : i <= j) - 1
                written(i) == [j \in 1..i |-> OutRow(st, rows[j])]
                writes == [i \in 1..(n + 1) |-> FsWrite(fs, tmp, written(i - 1))]
                closed == FsWrite(fs, tmp, written(n))
            IN  [steps |-> IF bad = {}
                           THEN writes \o
                                << FsRemove(closed, path),
                                   FsWrite(FsRemove(FsRemove(closed, path), tmp),
                                           path, written(n)) >>
                           ELSE writes,
                 err |-> IF bad = {} THEN "none" ELSE "ValueError",
                 old |-> rows,
                 new |-> IF bad = {} THEN written(n) ELSE rows]
            : rows \in { fs[path] } } : TRUE

-----------------------------------------------------------------------------
(* state_request_handler *)

\* the tuple of keys of the first branch (membership is equality with an element)
ShapeKeys ==
    {"samplerate", "sweeptime", "intensity",
     "etl_l_delay_percent", "etl_l_ramp_rising_percent",
     "etl_l_ramp_falling_percent", "etl_l_amplitude", "etl_l_offset",
     "etl_r_delay_percent", "etl_r_ramp_rising_percent",
     "etl_r_ramp_falling_percent", "etl_r_amplitude", "etl_r_offset",
     "galvo_l_frequency", "galvo_l_amplitude", "galvo_l_offset",
     "galvo_l_duty_cycle", "galvo_l_phase",
     "galvo_r_frequency", "galvo_r_amplitude", "galvo_r_offset",
     "galvo_r_duty_cycle", "galvo_r_phase",
     "laser_l_delay_percent", "laser_l_pulse_percent", "laser_l_max_amplitude",
     "laser_r_delay_percent", "laser_r_pulse_percent", "laser_r_max_amplitude",
     "camera_delay_percent", "camera_pulse_percent"}

\* the characters of the literals that state_request_handler tests a key
\* against with "in"
Chars(literal) ==
    CASE literal = "ETL_cfg_file" ->
           << "E", "T", "L", "_", "c", "f", "g", "_", "f", "i", "l", "e" >>
      [] literal = "set_etls_according_to_zoom" ->
           << "s", "e", "t", "_", "e", "t", "l", "s", "_",
              "a", "c", "c", "o", "r", "d", "i", "n", "g", "_",
              "t", "o", "_", "z", "o", "o", "m" >>
      [] literal = "set_etls_according_to_laser" ->
           << "s", "e", "t", "_", "e", "t", "l", "s", "_",
              "a", "c", "c", "o", "r", "d", "i", "n", "g", "_",
              "t", "o", "_", "l", "a", "s", "e", "r" >>
      [] literal = "laser" -> << "l", "a", "s", "e", "r" >>

\* the string made of the characters of a sequence
RECURSIVE Concat(_)
Concat(chars) ==
    IF chars = << >> THEN "" ELSE Head(chars) \o Concat(Tail(chars))

\* key in ('literal'): the parentheses do not make a tuple, so Python tests
\* whether the string key is a substring of the literal (the empty string is
\* a substring of every literal).
IsSubstring(key, literal) ==
    \E i \in 0..(Len(Chars(literal)) - Len(key)) :
        Concat(SubSeq(Chars(literal), i + 1, i + Len(key))) = key

\* state[key] = value; create_waveforms()
SetAndRecompute(st, w, key, value) ==
    CHOOSE out \in
      { [state |-> st1, wf |-> c.wf, err |-> c.err]
        : c \in { create_waveforms(st1, w) : st1 \in { SetKey(st, key, value) } },
          st1 \in { SetKey(st, key, value) } } : TRUE

\* One iteration of the loop: returns [state, wf, err]
HandleKey(st, w, fs, key, value) ==
    IF key \in ShapeKeys
    THEN SetAndRecompute(st, w, key, value)
    ELSE IF IsSubstring(key, "ETL_cfg_file")
    THEN CHOOSE out \in
           { update_etl_parameters_from_csv(st1, w, fs, value,
                                            st1["laser"], st1["zoom"])
             : st1 \in { SetKey(st, key, value) } } : TRUE
    ELSE IF IsSubstring(key, "set_etls_according_to_zoom")
    THEN update_etl_parameters_from_zoom(st, w, fs, value)
    ELSE IF IsSubstring(key, "set_etls_according_to_laser")
    THEN CHOOSE out \in
           { IF r.err # "none" THEN r
             ELSE update_etl_parameters_from_laser(r.state, r.wf, fs, value)
             : r \in { SetAndRecompute(st, w, "laser", value) } } : TRUE
    ELSE IF IsSubstring(key, "laser")
    THEN SetAndRecompute(st, w, "laser", value)
    ELSE Ok(st, w)

\* dict is the sequence of the (key, value) items in insertion order
RECURSIVE HandleDict(_, _, _, _)
HandleDict(st, w, fs, dict) ==
    IF dict = << >> THEN Ok(st, w)
    ELSE CHOOSE out \in
           { IF r.err # "none" THEN r
             ELSE HandleDict(r.state, r.wf, fs, Tail(dict))
             : r \in { HandleKey(st, w, fs, Head(dict)[1], Head(dict)[2]) } } : TRUE

-----------------------------------------------------------------------------
(* Output hardware adapter: the task objects behind the four handles *)

TaskNames == {"master_trigger_task", "camera_trigger_task",
              "galvo_etl_task", "laser_task"}
SlaveTasks == TaskNames \ {"master_trigger_task"}

\* "None": the attribute has not been assigned yet.  The record of the adapter
\* (NoHardware) keeps per task: its state, the buffer written to it, the
\* configured samps_per_chan, whether it delivered all samples, and the state
\* it was in when it was closed; plus the counter-output pulse, the digital
\* line values last written, the number of open tasks whose handle was
\* overwritten, and the run_tasks call that waits for the slave tasks.
TaskStates == {"None", "Unconfigured", "Configured", "Armed", "Running",
               "Done", "Stopped", "Closed"}

Call(task, op, arg) == [task |-> task, op |-> op, arg |-> arg]

\* no call is blocked in a wait_until_done of the adapter.  Of a run_tasks
\* call that has written the trigger and has not returned, the record keeps
\* what OpRecord records: the calls made so far, whether the trigger was
\* written and in which states the slaves were, and the most recent
\* orchestrator method before it.
NoBlocked ==
    [active |-> FALSE, pos |-> 0, prev |-> <<"-", "none">>, calls |-> << >>,
     fired |-> FALSE, armedAtFire |-> {}, runningAtFire |-> {},
     delivered |-> {}]

NoHardware ==
    [st |-> [t \in TaskNames |-> "None"],
     buf |-> [t \in TaskNames |-> << >>],
     samps_per_chan |-> [t \in TaskNames |-> 0],
     co_pulse |-> << >>,
     delivered |-> [t \in TaskNames |-> FALSE],
     line |-> << >>,
     closedFrom |-> [t \in TaskNames |-> "None"],
     leaked |-> 0,
     blocked |-> NoBlocked]

AllSlavesArmed(h) == \A t \in SlaveTasks : h.st[t] = "Armed"

\* The start edge of the master trigger: slaves start streaming only when all
\* of them wait for it; otherwise the edge is lost without any feedback.
FireTrigger(h) ==
    IF AllSlavesArmed(h)
    THEN [h EXCEPT !.st = [t \in TaskNames |->
                              IF t \in SlaveTasks THEN "Running" ELSE @[t]]]
    ELSE h

\* One call on a task object.  Returns [hw, err].
AdapterCall(h, c) ==
    LET t == c.task IN
    IF c.op = "Task"
    THEN [hw |-> [h EXCEPT !.st[t] = "Unconfigured",
                           !.buf[t] = << >>,
                           !.samps_per_chan[t] = 0,
                           !.delivered[t] = FALSE,
                           !.closedFrom[t] = "None",
                           !.leaked = IF h.st[t] \in {"None", "Closed"}
                                      THEN @ ELSE @ + 1],
          err |-> "none"]
    ELSE IF h.st[t] = "None" THEN [hw |-> h, err |-> "AttributeError"]
    ELSE IF c.op = "close"
    THEN [hw |-> [h EXCEPT !.st[t] = "Closed",
                           !.closedFrom[t] = IF h.st[t] = "Closed" THEN @
                                             ELSE h.st[t]],
          err |-> "none"]
    ELSE IF h.st[t] = "Closed" THEN [hw |-> h, err |-> "ConfigError"]
    ELSE IF c.op \in {"add_chan", "cfg_dig_edge_start_trig"}
    THEN [hw |-> [h EXCEPT !.st[t] = "Configured"], err |-> "none"]
    ELSE IF c.op = "add_co_pulse_chan_time"
    THEN [hw |-> [h EXCEPT !.st[t] = "Configured", !.co_pulse = c.arg],
          err |-> "none"]
    ELSE IF c.op = "cfg_samp_clk_timing"
    THEN [hw |-> [h EXCEPT !.st[t] = "Configured",
                           !.samps_per_chan[t] = c.arg],
          err |-> "none"]
    ELSE IF c.op = "write"
    THEN [hw |-> [h EXCEPT !.buf[t] = c.arg], err |-> "none"]
    ELSE IF c.op = "start"
    THEN [hw |-> [h EXCEPT !.st[t] = "Armed"], err |-> "none"]
    ELSE IF c.op = "write_auto_start"
    THEN [hw |-> FireTrigger([h EXCEPT !.st[t] = "Running", !.line = c.arg]),
          err |-> "none"]
    ELSE IF c.op = "wait_until_done"
    THEN [hw |-> IF h.st[t] = "Running"
                 THEN [h EXCEPT !.st[t] = "Done", !.delivered[t] = TRUE]
                 ELSE h,
          err |-> "none"]
    ELSE IF c.op = "stop"
    THEN [hw |-> [h EXCEPT !.st[t] = "Stopped"], err |-> "none"]
    ELSE [hw |-> h, err |-> "ConfigError"]

\* A method body is a sequence of adapter calls; the first call that raises
\* ends it.  fault = k > 0 makes the k-th call fail in the device (the call has
\* no effect); 0 injects nothing.  Returns [hw, err, calls, fired, armedAtFire,
\* runningAtFire, delivered]: calls is what the adapter recorded, fired whether
\* the master trigger was written, armedAtFire / runningAtFire the slaves that
\* were Armed / Running at the (first) write, delivered the slaves that
\* reported all samples delivered.
RECURSIVE Exec(_, _, _, _, _)
Exec(h, calls, k, fault, acc) ==
    IF calls = << >> THEN [acc EXCEPT !.hw = h]
    ELSE CHOOSE out \in
      { LET c == Head(calls)
            log == Append(acc.calls, <<c.task, c.op>>)
        IN  IF r.err # "none"
            THEN [acc EXCEPT !.hw = h, !.err = r.err, !.calls = log]
            ELSE IF k = fault
            THEN [acc EXCEPT !.hw = h, !.err = "HardwareError", !.calls = log]
            ELSE Exec(r.hw, Tail(calls), k + 1, fault,
                      [acc EXCEPT
                         !.calls = log,
                         !.fired = @ \/ c.op = "write_auto_start",
                         !.armedAtFire =
                             IF c.op = "write_auto_start" /\ ~acc.fired
                             THEN {t \in SlaveTasks : h.st[t] = "Armed"}
                             ELSE @,
                         !.runningAtFire =
                             IF c.op = "write_auto_start" /\ ~acc.fired
                             THEN {t \in SlaveTasks : h.st[t] = "Running"}
                             ELSE @,
                         !.delivered =
                             IF c.op = "wait_until_done" /\ h.st[c.task] = "Running"
                             THEN @ \cup {c.task} ELSE @])
        : r \in { AdapterCall(h, Head(calls)) } } : TRUE

Run(h, calls, fault) ==
    Exec(h, calls, 1, fault,
         [hw |-> h, err |-> "none", calls |-> << >>, fired |-> FALSE,
          armedAtFire |-> {}, runningAtFire |-> {}, delivered |-> {}])

-----------------------------------------------------------------------------
(* Device task orchestrator: the adapter calls of each method, in code order *)

create_tasks_calls(st, samples) ==
    << Call("master_trigger_task", "Task", 0),
       Call("camera_trigger_task", "Task", 0),
       Call("galvo_etl_task", "Task", 0),
       Call("laser_task", "Task", 0),
       Call("master_trigger_task", "add_chan", 0),
       \* high_time and initial_delay, in units of 10 microseconds
       Call("camera_trigger_task", "add_co_pulse_chan_time",
            << st["camera_pulse_percent"] * st["sweeptime"],
               st["camera_delay_percent"] * st["sweeptime"] >>),
       Call("camera_trigger_task", "cfg_dig_edge_start_trig", 0),
       Call("galvo_etl_task", "add_chan", 0),
       Call("galvo_etl_task", "cfg_samp_clk_timing", samples),
       Call("galvo_etl_task", "cfg_dig_edge_start_trig", 0),
       Call("laser_task", "add_chan", 0),
       Call("laser_task", "cfg_samp_clk_timing", samples),
       Call("laser_task", "cfg_dig_edge_start_trig", 0) >>

write_waveforms_to_tasks_calls(w) ==
    << Call("galvo_etl_task", "write", w.galvo_and_etl_waveforms),
       Call("laser_task", "write", w.laser_waveforms) >>

\* (variant: the laser task is not started)
start_tasks_calls_without_laser ==
    << Call("camera_trigger_task", "start", 0),
       Call("galvo_etl_task", "start", 0) >>

start_tasks_calls ==
    << Call("camera_trigger_task", "start", 0),
       Call("galvo_etl_task", "start", 0),
       Call("laser_task", "start", 0) >>

\* (variant: the last value of the sequence is high)
MasterPulse_left_high == << FALSE, TRUE, TRUE, TRUE, TRUE >>

\* [False, True, True, True, False]
MasterPulse == << FALSE, TRUE, TRUE, TRUE, FALSE >>

\* (variant: the camera trigger task is not waited for)
run_tasks_calls_without_camera_wait ==
    << Call("master_trigger_task", "write_auto_start", MasterPulse),
       Call("galvo_etl_task", "wait_until_done", 0),
       Call("laser_task", "wait_until_done", 0) >>

\* (variant: the trigger is written, the slaves are started, and the trigger is
\* written a second time)
run_tasks_calls_with_retry ==
    << Call("master_trigger_task", "write_auto_start", MasterPulse),
       Call("camera_trigger_task", "start", 0),
       Call("galvo_etl_task", "start", 0),
       Call("laser_task", "start", 0),
       Call("master_trigger_task", "write_auto_start", MasterPulse),
       Call("galvo_etl_task", "wait_until_done", 0),
       Call("laser_task", "wait_until_done", 0),
       Call("camera_trigger_task", "wait_until_done", 0) >>

run_tasks_calls ==
    << Call("master_trigger_task", "write_auto_start", MasterPulse),
       Call("galvo_etl_task", "wait_until_done", 0),
       Call("laser_task", "wait_until_done", 0),
       Call("camera_trigger_task", "wait_until_done", 0) >>

\* (variant: the master trigger task is stopped first)
stop_tasks_calls_master_first ==
    << Call("master_trigger_task", "stop", 0),
       Call("galvo_etl_task", "stop", 0),
       Call("laser_task", "stop", 0),
       Call("camera_trigger_task", "stop", 0) >>

stop_tasks_calls ==
    << Call("galvo_etl_task", "stop", 0),
       Call("laser_task", "stop", 0),
       Call("camera_trigger_task", "stop", 0),
       Call("master_trigger_task", "stop", 0) >>

\* (variant: the tasks are stopped, not closed)
close_tasks_calls_stop_only ==
    << Call("galvo_etl_task", "stop", 0),
       Call("laser_task", "stop", 0),
       Call("camera_trigger_task", "stop", 0),
       Call("master_trigger_task", "stop", 0) >>

close_tasks_calls ==
    << Call("galvo_etl_task", "close", 0),
       Call("laser_task", "close", 0),
       Call("camera_trigger_task", "close", 0),
       Call("master_trigger_task", "close", 0) >>

-----------------------------------------------------------------------------
(* Inputs *)

\* the (key, value) items a caller passes to state_request_handler; "640nm" is
\* not a configured laser line, "3x" has no row in the table, "exposure_time"
\* is a key of no branch
KeyValueInputs ==
    { <<"samplerate", 10>>, <<"sweeptime", 280>>,
      <<"intensity", 0>>, <<"intensity", 100>>,
      <<"etl_l_amplitude", 60>>, <<"galvo_l_amplitude", 200>>,
      <<"laser_l_pulse_percent", 100>>, <<"camera_delay_percent", 50>>,
      <<"laser", "488nm">>, <<"laser", "561nm">>, <<"laser", "640nm">>,
      <<"set_etls_according_to_laser", "561nm">>,
      <<"set_etls_according_to_laser", "640nm">>,
      <<"set_etls_according_to_zoom", "2x">>,
      <<"set_etls_according_to_zoom", "3x">>,
      <<"ETL_cfg_file", "missing.csv">>,
      <<"state", "live">>, <<"exposure_time", 20>> }

\* dicts: every single item, and three dicts of two items; 100 Hz times
\* 0.29 s is 28.999999999999996 as a double
DictInputs ==
    { << kv >> : kv \in KeyValueInputs }
    \cup { << <<"intensity", 100>>, <<"laser", "561nm">> >>,
           << <<"samplerate", 10>>, <<"laser", "640nm">> >>,
           << <<"samplerate", 100>>, <<"sweeptime", 290>> >> }

\* the dicts passed while tasks are being created, run and torn down
SweepDictInputs ==
    { << <<"samplerate", 10>> >>, << <<"etl_l_amplitude", 60>> >>,
      << <<"laser", "640nm">> >> }

\* the dicts that set the timing of the camera pulse
CameraDictInputs ==
    { << <<"camera_delay_percent", d>> >> : d \in {0, 50, 100} }
    \cup { << <<"camera_pulse_percent", p>> >> : p \in {0, 50, 100} }

\* the dicts that select a laser line or a zoom, with keys that are a part
\* of the name of a branch ("zoom", "to", "e", "cfg", "las", the empty
\* string) and a key of no branch
SelectionDictInputs ==
    { << kv >> : kv \in
        { <<"laser", "488nm">>, <<"laser", "561nm">>,
          <<"set_etls_according_to_laser", "488nm">>,
          <<"set_etls_according_to_laser", "561nm">>,
          <<"set_etls_according_to_zoom", "1x">>,
          <<"set_etls_according_to_zoom", "2x">>,
          <<"zoom", "2x">>, <<"to", "2x">>,
          <<"e", "missing.csv">>, <<"e", CfgPath>>,
          <<"cfg", CfgPath>>, <<"", "missing.csv">>, <<"las", "561nm">>,
          <<"etl_l_amplitude", 60>>,
          <<"exposure_time", 20>> } }

\* the dicts that set the timing and the amplitude limits of the laser pulse
LaserShapeDictInputs ==
    { << kv >> : kv \in
        { <<"laser_l_delay_percent", 25>>, <<"laser_l_pulse_percent", 100>>,
          <<"laser_r_delay_percent", 25>>, <<"laser_r_pulse_percent", 100>>,
          <<"laser_l_max_amplitude", 300>>, <<"laser_r_max_amplitude", 300>>,
          <<"intensity", 100>>,
          <<"laser", "561nm">>, <<"laser", "640nm">> } }

\* the dicts passed while the calibration table is loaded and saved
CalibDictInputs ==
    { << <<"etl_l_amplitude", 60>> >>, << <<"etl_r_offset", 35>> >>,
      << <<"set_etls_according_to_zoom", "1x">> >>,
      << <<"set_etls_according_to_zoom", "2x">> >>,
      << <<"set_etls_according_to_zoom", "3x">> >>,
      << <<"set_etls_according_to_laser", "561nm">> >>,
      << <<"laser", "640nm">> >>,
      << <<"ETL_cfg_file", "missing.csv">> >> }

\* a row of a table that has a column beyond the seven fieldnames
WithComment(row) ==
    [f \in DOMAIN row \cup {"Comment"} |->
        IF f = "Comment" THEN "checked" ELSE row[f]]

CommentedTable == [i \in 1..Len(InitialTable) |-> WithComment(InitialTable[i])]

\* a table of another objective that has rows for one laser line only
ObjectiveTable ==
    << Row("5x", "488nm", "1x", Num(10), Num(20), Num(30), Num(40)),
       Row("5x", "488nm", "2x", Num(14), Num(24), Num(34), Num(44)) >>

\* the calibration tables a session starts with
CalibTables == {InitialTable, CommentedTable, ObjectiveTable}


-----------------------------------------------------------------------------
(* State after construction *)

\* the parameter store as the session hands it to the constructor
SessionState ==
    [k \in ShapeKeys \cup {"laser", "zoom", "ETL_cfg_file", "max_laser_voltage"} |->
        CASE k = "samplerate" -> 20
          [] k = "sweeptime" -> 200
          [] k = "intensity" -> 50
          [] k = "laser" -> "488nm"
          [] k = "zoom" -> "1x"
          [] k = "ETL_cfg_file" -> CfgPath
          [] k = "max_laser_voltage" -> max_laser_voltage
          [] k \in {"etl_l_delay_percent", "etl_r_delay_percent"} -> 25
          [] k \in {"etl_l_ramp_rising_percent", "etl_r_ramp_rising_percent"} -> 50
          [] k \in {"etl_l_ramp_falling_percent", "etl_r_ramp_falling_percent"} -> 25
          [] k \in {"galvo_l_frequency", "galvo_r_frequency"} -> 10
          [] k \in {"galvo_l_amplitude", "galvo_r_amplitude"} -> 100
          [] k \in {"galvo_l_duty_cycle", "galvo_r_duty_cycle"} -> 50
          [] k \in {"laser_l_pulse_percent", "laser_r_pulse_percent"} -> 50
          [] k \in {"laser_l_max_amplitude", "laser_r_max_amplitude"} -> 500
          [] k = "camera_delay_percent" -> 10
          [] k = "camera_pulse_percent" -> 80
          [] OTHER -> 0]

NoWaveforms ==
    [samples |-> 0, etl_l_waveform |-> << >>, etl_r_waveform |-> << >>,
     galvo_l_waveform |-> << >>, galvo_r_waveform |-> << >>,
     laser_waveforms |-> << >>, galvo_and_etl_waveforms |-> << >>]

\* the keys __init__ copies from session.StartupParameters into the store
GalvoStartupKeys ==
    {"galvo_l_amplitude", "galvo_r_amplitude",
     "galvo_l_frequency", "galvo_r_frequency",
     "galvo_l_offset", "galvo_r_offset"}

\* session.StartupParameters, the galvo keys: the values of the store; a
\* galvo_l_amplitude that differs from the store; a galvo_r_amplitude, a
\* galvo_l_frequency and a galvo_r_offset that differ from the store
StartupParameters ==
    { [k \in GalvoStartupKeys |-> SessionState[k]],
      [k \in GalvoStartupKeys |->
          IF k = "galvo_l_amplitude" THEN 200 ELSE SessionState[k]],
      [k \in GalvoStartupKeys |->
          CASE k = "galvo_r_amplitude" -> 200
            [] k = "galvo_l_frequency" -> 20
            [] k = "galvo_r_offset" -> 50
            [] OTHER -> SessionState[k]] }

\* self.state[k] = session.StartupParameters[k] for each of the six keys
CopyStartupParameters(st, sp) ==
    [k \in DOMAIN st \cup GalvoStartupKeys |->
        IF k \in GalvoStartupKeys THEN sp[k] ELSE st[k]]

TaskMethods == {"create_tasks", "write_waveforms_to_tasks", "start_tasks",
                "run_tasks", "stop_tasks", "close_tasks"}

\* What is recorded about a call of a method of the DAQ object: its name, the
\* exception it raised, the dict it was given, what the adapter saw (r), the
\* number of handles of open tasks it replaced, and the most recent
\* orchestrator method before it.
OpRecord(name, err, dict, r, replaced, prev) ==
    [name |-> name, err |-> err, dict |-> dict,
     calls |-> r.calls, fired |-> r.fired, armedAtFire |-> r.armedAtFire,
     runningAtFire |-> r.runningAtFire, delivered |-> r.delivered, replaced |-> replaced, prev |-> prev]

NoCalls ==
    [calls |-> << >>, fired |-> FALSE, armedAtFire |-> {}, runningAtFire |-> {},
     delivered |-> {}]

\* the most recent orchestrator method and its outcome
LastTaskOp(lo) == IF lo.name \in TaskMethods THEN <<lo.name, lo.err>> ELSE lo.prev

DictKeys(dict) == {dict[i][1] : i \in 1..Len(dict)}

\* no parameter change in flight, no stage controller, no waveform popup
NoStage == [constructed |-> FALSE]
NoPopup == [constructed |-> FALSE]

OthersAbsent == inflight = FALSE /\ stage = NoStage /\ popup = NoPopup

\* DAQ.__init__: load the calibration (which recomputes the waveforms), then
\* copy the six galvo start-up parameters into the store
Init ==
    /\ files = [p \in {CfgPath} |-> InitialTable]
    /\ \E sp \in StartupParameters :
         \E r \in { update_etl_parameters_from_csv(SessionState, NoWaveforms, files,
                                                   CfgPath, SessionState["laser"],
                                                   SessionState["zoom"]) } :
             /\ r.err = "none"
             /\ state = CopyStartupParameters(r.state, sp)
             /\ wf = r.wf
    /\ hw = NoHardware
    /\ lastOp = OpRecord("__init__", "none", << >>, NoCalls, 0, <<"-", "none">>)
    /\ nsets = 0
    /\ ncreates = 0
    /\ nfaults = 0
    /\ OthersAbsent

\* the same, for each of the calibration tables
InitCalib ==
    /\ \E table \in CalibTables : files = [p \in {CfgPath} |-> table]
    /\ \E sp \in StartupParameters :
         \E r \in { update_etl_parameters_from_csv(SessionState, NoWaveforms, files,
                                                   CfgPath, SessionState["laser"],
                                                   SessionState["zoom"]) } :
             /\ r.err = "none"
             /\ state = CopyStartupParameters(r.state, sp)
             /\ wf = r.wf
    /\ hw = NoHardware
    /\ lastOp = OpRecord("__init__", "none", << >>, NoCalls, 0, <<"-", "none">>)
    /\ nsets = 0
    /\ ncreates = 0
    /\ nfaults = 0
    /\ OthersAbsent

\* What is recorded about a call of save_etl_parameters_to_csv: as OpRecord,
\* and the table it read (old) and the table its loop writes (new).  err is
\* "Crash" when the process stopped during the call.
SaveRecord(err, r, prev) ==
    [name |-> "save_etl_parameters_to_csv", err |-> err, dict |-> << >>,
     calls |-> << >>, fired |-> FALSE, armedAtFire |-> {}, runningAtFire |-> {},
     delivered |-> {}, replaced |-> 0, prev |-> prev,
     old |-> r.old, new |-> r.new]

\* the process has not stopped
Alive == lastOp.err # "Crash"

-----------------------------------------------------------------------------
(* Methods of the DAQ object *)

\* crash = k > 0: the process stops after the k-th file-system step of the
\* save; 0: the method runs to its end (or to the exception it raises).
SaveCall(crash) ==
    /\ \E r \in { save_etl_parameters_to_csv_steps(state, files) } :
           /\ crash <= Len(r.steps)
           /\ files' = IF crash > 0 THEN r.steps[crash]
                       ELSE IF r.steps = << >> THEN files
                       ELSE r.steps[Len(r.steps)]
           /\ lastOp' = SaveRecord(IF crash > 0 THEN "Crash" ELSE r.err, r,
                                   LastTaskOp(lastOp))
    /\ UNCHANGED <<state, wf, hw, ncreates, nfaults, inflight, stage, popup>>

save_etl_parameters_to_csv(crash) ==
    /\ SaveCall(crash)
    /\ UNCHANGED nsets

\* the buffers have been written to the tasks and run_tasks has not returned
\* (it has not been called, or it waits for the slave tasks)
SweepInFlight(lo) ==
    LastTaskOp(lo) \in { <<"write_waveforms_to_tasks", "none">>,
                         <<"start_tasks", "none">>,
                         <<"run_tasks", "blocked">> }

\* inflight records that a call which set a waveform-shape key returned
\* without error while a sweep was in flight
state_request_handler(dict) ==
    /\ nsets < MaxSets
    /\ \E r \in { HandleDict(state, wf, files, dict) } :
           /\ state' = r.state
           /\ wf' = r.wf
           /\ lastOp' = OpRecord("state_request_handler", r.err, dict,
                                 NoCalls, 0, LastTaskOp(lastOp))
           /\ inflight' = (\/ inflight
                           \/ /\ SweepInFlight(lastOp)
                              /\ r.err = "none"
                              /\ DictKeys(dict) \cap ShapeKeys # {})
    /\ nsets' = nsets + 1
    /\ UNCHANGED <<files, hw, ncreates, nfaults, stage, popup>>

\* the methods that recompute waveform attributes from the store, which the
\* handler and the loads call and which can be called on their own
RecomputeMethods ==
    {"calculate_samples", "create_waveforms", "create_etl_waveforms",
     "create_low_res_galvo_waveforms", "create_high_res_galvo_waveforms",
     "create_laser_waveforms", "bundle_galvo_and_etl_waveforms"}

\* A call of one of these methods alone.  nsets counts the calls of the
\* handler and the calls of a method on its own, in any order.  r is what the
\* call does to the waveform attributes, [wf, err] (np.stack of four rows of
\* different lengths is a ValueError).
Recompute(name) ==
    /\ nsets < MaxSets
    /\ name \in RecomputeMethods
    /\ \E r \in {
         CASE name = "calculate_samples" ->
                [wf |-> [wf EXCEPT !.samples = calculate_samples(state)],
                 err |-> "none"]
           [] name = "create_waveforms" -> create_waveforms(state, wf)
           [] name = "create_etl_waveforms" ->
                [wf |-> create_etl_waveforms(state, wf), err |-> "none"]
           [] name = "create_low_res_galvo_waveforms" ->
                [wf |-> create_low_res_galvo_waveforms(state, wf), err |-> "none"]
           [] name = "create_high_res_galvo_waveforms" ->
                [wf |-> create_high_res_galvo_waveforms(state, wf), err |-> "none"]
           [] name = "create_laser_waveforms" -> create_laser_waveforms(state, wf)
           [] OTHER ->
                IF Cardinality({ Len(wf.galvo_l_waveform), Len(wf.galvo_r_waveform),
                                 Len(wf.etl_l_waveform), Len(wf.etl_r_waveform) }) > 1
                THEN [wf |-> wf, err |-> "ValueError"]
                ELSE [wf |-> bundle_galvo_and_etl_waveforms(wf), err |-> "none"] } :
           /\ wf' = r.wf
           /\ lastOp' = OpRecord(name, r.err, << >>, NoCalls, 0,
                                 LastTaskOp(lastOp))
    /\ nsets' = nsets + 1
    /\ UNCHANGED <<state, files, hw, ncreates, nfaults, inflight, stage, popup>>

\* update_etl_parameters_from_csv(cfg_path, laser, zoom) called alone
LoadFromCsv(cfg_path, laser, zoom) ==
    /\ nsets < MaxSets
    /\ \E r \in { update_etl_parameters_from_csv(state, wf, files, cfg_path,
                                                  laser, zoom) } :
           /\ state' = r.state
           /\ wf' = r.wf
           /\ lastOp' = OpRecord("update_etl_parameters_from_csv", r.err, << >>,
                                 NoCalls, 0, LastTaskOp(lastOp))
    /\ nsets' = nsets + 1
    /\ UNCHANGED <<files, hw, ncreates, nfaults, inflight, stage, popup>>

\* update_etl_parameters_from_zoom(zoom) called alone
LoadFromZoom(zoom) ==
    /\ nsets < MaxSets
    /\ \E r \in { update_etl_parameters_from_zoom(state, wf, files, zoom) } :
           /\ state' = r.state
           /\ wf' = r.wf
           /\ lastOp' = OpRecord("update_etl_parameters_from_zoom", r.err, << >>,
                                 NoCalls, 0, LastTaskOp(lastOp))
    /\ nsets' = nsets + 1
    /\ UNCHANGED <<files, hw, ncreates, nfaults, inflight, stage, popup>>

\* update_etl_parameters_from_laser(laser) called alone: the laser is not
\* stored (the handler stores it before it calls the method)
LoadFromLaser(laser) ==
    /\ nsets < MaxSets
    /\ \E r \in { update_etl_parameters_from_laser(state, wf, files, laser) } :
           /\ state' = r.state
           /\ wf' = r.wf
           /\ lastOp' = OpRecord("update_etl_parameters_from_laser", r.err, << >>,
                                 NoCalls, 0, LastTaskOp(lastOp))
    /\ nsets' = nsets + 1
    /\ UNCHANGED <<files, hw, ncreates, nfaults, inflight, stage, popup>>

\* save_etl_parameters_to_csv() called alone, between the calls on the tasks
SaveAlone ==
    /\ nsets < MaxSets
    /\ SaveCall(0)
    /\ nsets' = nsets + 1

\* A method that is only a sequence of adapter calls.  A fault index is taken
\* only where it makes a call fail.  The thread that calls the sweep methods
\* calls none while its run_tasks call has not returned.
TaskMethod(name, calls, fault) ==
    \E r \in { Run(hw, calls, fault) } :
        /\ ~hw.blocked.active
        /\ fault > 0 => (nfaults < MaxFaults /\ r.err = "HardwareError")
        /\ nfaults' = IF fault > 0 THEN nfaults + 1 ELSE nfaults
        /\ hw' = r.hw
        /\ lastOp' = OpRecord(name, r.err, << >>, r, r.hw.leaked - hw.leaked,
                              LastTaskOp(lastOp))

create_tasks(fault) ==
    /\ ncreates < MaxSweeps
    /\ ncreates' = ncreates + 1
    /\ wf' = [wf EXCEPT !.samples = calculate_samples(state)]
    /\ TaskMethod("create_tasks", create_tasks_calls(state, wf'.samples), fault)
    /\ UNCHANGED <<state, files, nsets, inflight, stage, popup>>

write_waveforms_to_tasks(fault) ==
    /\ TaskMethod("write_waveforms_to_tasks", write_waveforms_to_tasks_calls(wf), fault)
    /\ inflight' = (inflight /\ lastOp'.err # "none")
    /\ UNCHANGED <<state, wf, files, nsets, ncreates, stage, popup>>

start_tasks(fault) ==
    /\ TaskMethod("start_tasks", start_tasks_calls, fault)
    /\ UNCHANGED <<state, wf, files, nsets, ncreates, inflight, stage, popup>>

\* run_tasks up to its first wait_until_done: the trigger is written.  When
\* the write raises the call ends here; otherwise the call blocks in the
\* adapter (err "blocked": it has not returned), and state_request_handler
\* can be called from another thread before it goes on.
run_tasks(fault) ==
    /\ ~hw.blocked.active
    /\ \E r \in { Run(hw, SubSeq(run_tasks_calls, 1, 1), fault) } :
        /\ fault > 0 => (nfaults < MaxFaults /\ r.err = "HardwareError")
        /\ nfaults' = IF fault > 0 THEN nfaults + 1 ELSE nfaults
        /\ hw' = IF r.err # "none" THEN r.hw
                 ELSE [r.hw EXCEPT !.blocked =
                         [active |-> TRUE, pos |-> 1,
                          prev |-> LastTaskOp(lastOp),
                          calls |-> r.calls, fired |-> r.fired,
                          armedAtFire |-> r.armedAtFire,
                          runningAtFire |-> r.runningAtFire,
                          delivered |-> r.delivered]]
        /\ lastOp' = OpRecord("run_tasks",
                              IF r.err # "none" THEN r.err ELSE "blocked",
                              << >>, r, 0, LastTaskOp(lastOp))
    /\ UNCHANGED <<state, wf, files, nsets, ncreates, inflight, stage, popup>>

\* the next adapter call of a run_tasks that has written the trigger: one
\* wait_until_done returns (or raises).  After the last one the call
\* returns; before that it blocks in the next wait, and
\* state_request_handler can be called from another thread between two
\* waits as well.
run_tasks_wait_until_done(fault) ==
    /\ hw.blocked.active
    /\ \E pos \in { hw.blocked.pos + 1 } :
        \E r \in { Exec([hw EXCEPT !.blocked = NoBlocked],
                          SubSeq(run_tasks_calls, pos, pos), pos, fault,
                          [hw |-> hw, err |-> "none",
                           calls |-> hw.blocked.calls,
                           fired |-> hw.blocked.fired,
                           armedAtFire |-> hw.blocked.armedAtFire,
                           runningAtFire |-> hw.blocked.runningAtFire,
                           delivered |-> hw.blocked.delivered]) } :
            /\ fault > 0 => (nfaults < MaxFaults /\ r.err = "HardwareError")
            /\ nfaults' = IF fault > 0 THEN nfaults + 1 ELSE nfaults
            /\ hw' = IF r.err # "none" \/ pos = Len(run_tasks_calls)
                     THEN r.hw
                     ELSE [r.hw EXCEPT !.blocked =
                             [active |-> TRUE, pos |-> pos,
                              prev |-> hw.blocked.prev,
                              calls |-> r.calls, fired |-> r.fired,
                              armedAtFire |-> r.armedAtFire,
                              runningAtFire |-> r.runningAtFire,
                              delivered |-> r.delivered]]
            /\ lastOp' = OpRecord("run_tasks",
                                  IF r.err # "none" \/ pos = Len(run_tasks_calls)
                                  THEN r.err ELSE "blocked",
                                  << >>, r, 0, hw.blocked.prev)
    /\ UNCHANGED <<state, wf, files, nsets, ncreates, inflight, stage, popup>>

stop_tasks(fault) ==
    /\ TaskMethod("stop_tasks", stop_tasks_calls, fault)
    /\ UNCHANGED <<state, wf, files, nsets, ncreates, inflight, stage, popup>>

close_tasks(fault) ==
    /\ TaskMethod("close_tasks", close_tasks_calls, fault)
    /\ UNCHANGED <<state, wf, files, nsets, ncreates, inflight, stage, popup>>

\* The parameter store and the synthesis engine alone
NextParams ==
    \/ \E dict \in DictInputs : state_request_handler(dict)
    \/ \E name \in RecomputeMethods : Recompute(name)
    \/ LoadFromCsv(CfgPath, "561nm", "1x")
    \/ LoadFromCsv("missing.csv", "488nm", "1x")
    \/ LoadFromZoom("2x")
    \/ LoadFromLaser("561nm")
    \/ SaveAlone

SpecParams == Init /\ [][NextParams]_vars

\* The sweep methods alone, against an adapter whose calls can fail
NextTasks ==
    \/ \E fault \in 0..MaxFault : create_tasks(fault)
    \/ \E fault \in 0..MaxFault : write_waveforms_to_tasks(fault)
    \/ \E fault \in 0..MaxFault : start_tasks(fault)
    \/ \E fault \in 0..MaxFault : run_tasks(fault)
    \/ \E fault \in 0..MaxFault : run_tasks_wait_until_done(fault)
    \/ \E fault \in 0..MaxFault : stop_tasks(fault)
    \/ \E fault \in 0..MaxFault : close_tasks(fault)

SpecTasks == Init /\ [][NextTasks]_vars

\* The camera timing parameters and the creation of the tasks
NextCamera ==
    \/ \E dict \in CameraDictInputs : state_request_handler(dict)
    \/ create_tasks(0)

SpecCamera == Init /\ [][NextCamera]_vars

\* The selection of the laser line and of the zoom
NextSelection == \E dict \in SelectionDictInputs : state_request_handler(dict)

SpecSelection == Init /\ [][NextSelection]_vars

\* The parameters of the laser pulse
NextLaserShape == \E dict \in LaserShapeDictInputs : state_request_handler(dict)

SpecLaserShape == Init /\ [][NextLaserShape]_vars

\* The parameter store and the calibration table, with a process that can
\* stop during a save
NextCalib ==
    \/ \E dict \in CalibDictInputs : Alive /\ state_request_handler(dict)
    \/ \E crash \in 0..MaxCrashStep : Alive /\ save_etl_parameters_to_csv(crash)

SpecCalib == InitCalib /\ [][NextCalib]_vars

\* The whole object: parameter changes interleaved with the sweep methods
\* create_tasks() among the calls of every public method
CreateTasks ==
    /\ ncreates < MaxCreates
    /\ create_tasks(0)

Next ==
    \/ \E dict \in SweepDictInputs : state_request_handler(dict)
    \/ \E name \in RecomputeMethods : Recompute(name)
    \/ LoadFromCsv(CfgPath, "561nm", "1x")
    \/ LoadFromCsv("missing.csv", "488nm", "1x")
    \/ LoadFromZoom("2x")
    \/ LoadFromLaser("561nm")
    \/ SaveAlone
    \/ CreateTasks
    \/ write_waveforms_to_tasks(0)
    \/ start_tasks(0)
    \/ run_tasks(0)
    \/ run_tasks_wait_until_done(0)
    \/ stop_tasks(0)
    \/ close_tasks(0)

Spec == Init /\ [][Next]_vars

-----------------------------------------------------------------------------
(* Arming order *)

\* C1 (as stated): no sequence of orchestrator calls writes the master trigger
\* while a slave task (camera trigger, galvo/lens, laser) is not Armed.
C1_FiredOnlyWhenAllArmed ==
    lastOp.fired => lastOp.armedAtFire = SlaveTasks

\* C1 (amended): only run_tasks writes the master trigger, and a run_tasks
\* that follows a start_tasks which returned without error writes it with all
\* three slave tasks Armed.  run_tasks itself does not look at the slaves.
C1_AllArmedAfterStartTasks ==
    /\ lastOp.fired => lastOp.name = "run_tasks"
    /\ (/\ lastOp.name = "run_tasks"
        /\ lastOp.fired
        /\ lastOp.prev = <<"start_tasks", "none">>)
       => lastOp.armedAtFire = SlaveTasks

C1_Witness ==
    /\ lastOp.name = "run_tasks"
    /\ lastOp.fired
    /\ lastOp.prev = <<"start_tasks", "none">>
    /\ lastOp.armedAtFire = SlaveTasks
    /\ lastOp.delivered = SlaveTasks

SlavesUsable(h) == \A t \in SlaveTasks : h.st[t] \notin {"None", "Closed"}

\* run_tasks has ended, and it wrote the master trigger while some slave task
\* was not Armed (and none was still streaming from an earlier trigger)
FiredUnarmed(lo) ==
    /\ lo.name = "run_tasks"
    /\ lo.err # "blocked"
    /\ lo.fired
    /\ lo.armedAtFire # SlaveTasks
    /\ lo.runningAtFire = {}

\* C2 (as stated): when the master trigger is written while some slave task is
\* not Armed, no slave task records its samples as delivered and run_tasks
\* raises no error (other than a fault of the device itself).
C2_SilentDrop ==
    (FiredUnarmed(lastOp) /\ lastOp.err # "HardwareError")
    => (lastOp.delivered = {} /\ lastOp.err = "none")

\* C2 (amended): when the master trigger is written while some slave task is
\* not Armed, no slave task records its samples as delivered; run_tasks raises
\* no error provided every slave task exists and is not closed, and otherwise
\* raises at the wait on the first slave task that is missing or closed.
C2_SilentDropOfUsableTasks ==
    FiredUnarmed(lastOp)
    => /\ lastOp.delivered = {}
       /\ (SlavesUsable(hw) /\ lastOp.err # "HardwareError") => lastOp.err = "none"
       /\ ~SlavesUsable(hw) => lastOp.err \in {"AttributeError", "ConfigError",
                                               "HardwareError"}

C2_Witness ==
    /\ FiredUnarmed(lastOp)
    /\ lastOp.armedAtFire = {"camera_trigger_task"}
    /\ SlavesUsable(hw)
    /\ lastOp.err = "none"
    /\ lastOp.delivered = {}

-----------------------------------------------------------------------------
(* Laser-channel exclusivity *)

AllZero(row) == \A i \in 1..Len(row) : row[i] = 0

\* C3: the laser buffer has one row per configured laser line, every row other
\* than the row of the selected line is all-zero, and the selected row is
\* all-zero when intensity is 0.
C3_LaserExclusive ==
    /\ Len(wf.laser_waveforms) = Cardinality(DOMAIN laser_designation)
    /\ \A r \in 1..Len(wf.laser_waveforms) :
          (\/ state["laser"] \notin DOMAIN laser_designation
           \/ r # laser_designation[state["laser"]] + 1
           \/ state["intensity"] = 0)
          => AllZero(wf.laser_waveforms[r])

-----------------------------------------------------------------------------
(* Teardown *)

TeardownOrder == << "galvo_etl_task", "laser_task", "camera_trigger_task",
                    "master_trigger_task" >>

\* the adapter calls of a method are the first calls of: op on each task, in
\* TeardownOrder
IsTeardownPrefix(calls, op) ==
    /\ Len(calls) <= Len(TeardownOrder)
    /\ \A i \in 1..Len(calls) : calls[i] = <<TeardownOrder[i], op>>

\* C4 (as stated): stop_tasks and close_tasks handle the three slave tasks
\* before the master trigger task, and no task is closed before it has been
\* stopped.
C4_StoppedBeforeClosed ==
    /\ lastOp.name = "stop_tasks" => IsTeardownPrefix(lastOp.calls, "stop")
    /\ lastOp.name = "close_tasks" => IsTeardownPrefix(lastOp.calls, "close")
    /\ \A t \in TaskNames : hw.st[t] = "Closed" => hw.closedFrom[t] = "Stopped"

\* C4 (amended): stop_tasks and close_tasks act on galvo/lens, laser, camera,
\* master in this order, on all four when they return without error;
\* close_tasks closes each task in whatever state it is, and the tasks are
\* stopped when they are closed if close_tasks follows a stop_tasks that
\* returned without error.
C4_TeardownOrder ==
    /\ lastOp.name = "stop_tasks" =>
          /\ IsTeardownPrefix(lastOp.calls, "stop")
          /\ lastOp.err = "none" => Len(lastOp.calls) = Len(TeardownOrder)
    /\ lastOp.name = "close_tasks" =>
          /\ IsTeardownPrefix(lastOp.calls, "close")
          /\ lastOp.err = "none" => Len(lastOp.calls) = Len(TeardownOrder)
    /\ (/\ lastOp.name = "close_tasks"
        /\ lastOp.err = "none"
        /\ lastOp.prev = <<"stop_tasks", "none">>)
       => \A t \in TaskNames :
             hw.st[t] = "Closed" /\ hw.closedFrom[t] = "Stopped"

C4_Witness ==
    /\ lastOp.name = "close_tasks"
    /\ lastOp.err = "none"
    /\ lastOp.prev = <<"stop_tasks", "none">>
    /\ Len(lastOp.calls) = Len(TeardownOrder)
    /\ \A t \in TaskNames : hw.closedFrom[t] = "Stopped"

AllClosed(h) == \A t \in TaskNames : h.st[t] = "Closed"

\* C5: after close_tasks has returned all four tasks are Closed, and as long
\* as they are, write_waveforms_to_tasks, start_tasks and run_tasks fail with
\* a configuration error, without writing the master trigger and without any
\* sample delivered.
C5_ClosedIsTerminal ==
    /\ (lastOp.name = "close_tasks" /\ lastOp.err = "none") => AllClosed(hw)
    /\ (/\ lastOp.name \in {"write_waveforms_to_tasks", "start_tasks", "run_tasks"}
        /\ AllClosed(hw))
       => /\ lastOp.err = "ConfigError"
          /\ ~lastOp.fired
          /\ lastOp.delivered = {}

\* start_tasks on the instances that were stopped and then closed
C5_Witness ==
    /\ lastOp.name = "start_tasks"
    /\ lastOp.prev = <<"close_tasks", "none">>
    /\ \A t \in TaskNames : hw.st[t] = "Closed" /\ hw.closedFrom[t] = "Stopped"
    /\ lastOp.err = "ConfigError"

\* C6: create_tasks never replaces the handle of a task that is still open
\* (it raises before it creates the tasks of the new sweep).
C6_NoSilentReplace ==
    lastOp.name = "create_tasks" => lastOp.replaced = 0
-----------------------------------------------------------------------------
(* Parameter changes and the buffers *)

\* a step that is a call of state_request_handler
HandlerStep == lastOp'.name = "state_request_handler" /\ nsets' = nsets + 1

Cols(buffer) == {Len(buffer[r]) : r \in 1..Len(buffer)}

\* the tasks hold what the store asks for: the buffers synthesized from the
\* current parameters, as many columns wide as the tasks are configured for
TasksConfiguredFromStore(h, st) ==
    \E c \in { create_waveforms(st, NoWaveforms) } :
        /\ c.err = "none"
        /\ h.buf["galvo_etl_task"] = c.wf.galvo_and_etl_waveforms
        /\ h.buf["laser_task"] = c.wf.laser_waveforms
        /\ Cols(h.buf["galvo_etl_task"]) = {h.samps_per_chan["galvo_etl_task"]}
        /\ Cols(h.buf["laser_task"]) = {h.samps_per_chan["laser_task"]}

\* C7: a parameter change received through state_request_handler while a
\* sweep is in flight does not change the buffers of that sweep (the tasks
\* are left as they are), and it is applied at the configuration of the next
\* sweep: the write_waveforms_to_tasks that follows leaves on the tasks the
\* buffers for the changed parameters, with the sample count the tasks are
\* configured for.
C7_InFlightChangeAppliedAtNextConfiguration ==
    [][ /\ (HandlerStep /\ SweepInFlight(lastOp)) => hw' = hw
        /\ (/\ inflight
            /\ ~inflight'
            /\ lastOp'.name = "write_waveforms_to_tasks"
            /\ lastOp'.err = "none")
           => TasksConfiguredFromStore(hw', state') ]_vars

\* C8: after a state_request_handler call that sets a waveform-shape key or
\* loads calibration, both in-memory bundled buffers are the buffers
\* synthesized from the current parameter values alone.
C8_BuffersFromCurrentParameters ==
    (/\ lastOp.name = "state_request_handler"
     /\ DictKeys(lastOp.dict) \cap
          (ShapeKeys \cup {"ETL_cfg_file", "set_etls_according_to_zoom",
                           "set_etls_according_to_laser"}) # {})
    => \E c \in { create_waveforms(state, NoWaveforms) } :
          /\ c.err = "none"
          /\ wf.galvo_and_etl_waveforms = c.wf.galvo_and_etl_waveforms
          /\ wf.laser_waveforms = c.wf.laser_waveforms

\* C9: the sample count equals round(samplerate * sweeptime).
C9_SamplesRounded ==
    wf.samples = RoundHalfEven(state["samplerate"] * state["sweeptime"], 1000)

\* C10: whenever write_waveforms_to_tasks or start_tasks has got as far as
\* calling a task (no error was raised before), every row of the galvo/lens
\* buffer and of the laser buffer has sampleCount columns.
C10_EqualColumns ==
    (/\ lastOp.name \in {"write_waveforms_to_tasks", "start_tasks"}
     /\ lastOp.calls # << >>)
    => /\ Cols(wf.galvo_and_etl_waveforms) = {wf.samples}
       /\ Cols(wf.laser_waveforms) = {wf.samples}

-----------------------------------------------------------------------------
(* Errors *)

\* the keys that some branch of state_request_handler lists
KnownKeys ==
    ShapeKeys \cup {"ETL_cfg_file", "set_etls_according_to_zoom",
                    "set_etls_according_to_laser", "laser", "state"}

\* C11: a state_request_handler call with a key that no branch lists raises an
\* error.
C11_UnknownKeyRaises ==
    (/\ lastOp.name = "state_request_handler"
     /\ DictKeys(lastOp.dict) \ KnownKeys # {})
    => lastOp.err # "none"

\* C12: when a call on a task fails in create_tasks, write_waveforms_to_tasks,
\* start_tasks or run_tasks, no task is left open when the error reaches the
\* caller.
C12_TeardownOnFailure ==
    (/\ lastOp.name \in {"create_tasks", "write_waveforms_to_tasks",
                         "start_tasks", "run_tasks"}
     /\ lastOp.err = "HardwareError")
    => \A t \in TaskNames : hw.st[t] \in {"None", "Closed"}

\* C13: a run_tasks whose slave tasks never complete (the trigger was written
\* while they were not all Armed) ends with a timeout error.
C13_TimeoutWhenNeverCompleting ==
    (/\ FiredUnarmed(lastOp)
     /\ SlavesUsable(hw)
     /\ lastOp.err # "HardwareError")
    => lastOp.err = "TimeoutError"

\* the calls run_tasks makes when nothing raises
RunTasksOrder ==
    << <<"master_trigger_task", "write_auto_start">>,
       <<"galvo_etl_task", "wait_until_done">>,
       <<"laser_task", "wait_until_done">>,
       <<"camera_trigger_task", "wait_until_done">> >>

\* C14 (as stated): run_tasks returns normally only after each of the three
\* slave tasks has reported that all its samples were delivered.
C14_ReturnsOnlyWhenDelivered ==
    (lastOp.name = "run_tasks" /\ lastOp.err = "none")
    => lastOp.delivered = SlaveTasks

\* C14 (amended): run_tasks returns normally only after it has written the
\* trigger and waited for the galvo/lens, laser and camera task, in this
\* order; no slave task is Running when it returns; all three have reported
\* their samples delivered if they were all Armed when the trigger was
\* written (otherwise it may return normally with nothing delivered).
C14_ReturnsAfterWaits ==
    (lastOp.name = "run_tasks" /\ lastOp.err = "none")
    => /\ lastOp.calls = RunTasksOrder
       /\ \A t \in SlaveTasks : hw.st[t] # "Running"
       /\ lastOp.armedAtFire = SlaveTasks => lastOp.delivered = SlaveTasks

C14_Witness ==
    /\ lastOp.name = "run_tasks"
    /\ lastOp.err = "none"
    /\ lastOp.calls = RunTasksOrder
    /\ lastOp.armedAtFire = SlaveTasks
    /\ \A t \in SlaveTasks : hw.st[t] = "Done" /\ hw.delivered[t]

-----------------------------------------------------------------------------
(* Calibration table *)

LensKeys == {"etl_l_offset", "etl_l_amplitude", "etl_r_offset", "etl_r_amplitude"}

\* the four in-memory lens values
LensValues(st) == [k \in LensKeys |-> st[k]]

\* the four lens values a row of the table holds
RowLensValues(row) ==
    [k \in LensKeys |->
        CASE k = "etl_l_offset" -> float(row.ETL_Left_Offset)
          [] k = "etl_l_amplitude" -> float(row.ETL_Left_Amp)
          [] k = "etl_r_offset" -> float(row.ETL_Right_Offset)
          [] k = "etl_r_amplitude" -> float(row.ETL_Right_Amp)]

\* the indices of the rows of a table for (laser, zoom)
MatchingRows(table, laser, zoom) ==
    {i \in 1..Len(table) : table[i].Wavelength = laser /\ table[i].Zoom = zoom}

\* a step that is state_request_handler({'set_etls_according_to_zoom': zoom})
LoadStep(zoom) ==
    /\ HandlerStep
    /\ lastOp'.dict = << <<"set_etls_according_to_zoom", zoom>> >>
    /\ state["ETL_cfg_file"] \in DOMAIN files

\* C15: a load of the table for (laser, zoom) that finds no row keeps the four
\* lens values and raises no error; a load that finds a row overwrites the
\* four lens values with the values of the row.
C15_SoftFailOnMiss ==
    [][ \A zoom \in {"1x", "2x", "3x"} :
          LoadStep(zoom) =>
            LET rows == MatchingRows(files[state["ETL_cfg_file"]],
                                     state["laser"], zoom)
            IN  IF rows = {}
                THEN /\ LensValues(state') = LensValues(state)
                     /\ lastOp'.err = "none"
                ELSE \E i \in rows :
                        LensValues(state') =
                            RowLensValues(files[state["ETL_cfg_file"]][i]) ]_vars

\* the last operation was a save that returned without error
Saved ==
    /\ lastOp.name = "save_etl_parameters_to_csv"
    /\ lastOp.err = "none"

\* C16: when save_etl_parameters_to_csv returns, the table at the calibration
\* path has the rows of the table it read, in the same order, where each row
\* for the current (laser, zoom) keeps its Wavelength and Zoom and carries the
\* four in-memory lens values, and every other row is unchanged.
C16_MatchingRowReplaced ==
    Saved =>
        /\ state["ETL_cfg_file"] \in DOMAIN files
        /\ LET old == lastOp.old
               new == files[state["ETL_cfg_file"]]
           IN  /\ Len(new) = Len(old)
               /\ \A i \in 1..Len(old) :
                    IF i \in MatchingRows(old, state["laser"], state["zoom"])
                    THEN /\ new[i].Wavelength = old[i].Wavelength
                         /\ new[i].Zoom = old[i].Zoom
                         /\ RowLensValues(new[i]) = LensValues(state)
                    ELSE new[i] = old[i]

\* a save returned that changed the row for the current (laser, zoom) of a
\* table that has other rows
C16_Witness ==
    /\ Saved
    /\ \E i \in MatchingRows(lastOp.old, state["laser"], state["zoom"]) :
          /\ RowLensValues(lastOp.old[i]) # LensValues(state)
          /\ files[state["ETL_cfg_file"]][i] # lastOp.old[i]
    /\ \E j \in 1..Len(lastOp.old) :
          j \notin MatchingRows(lastOp.old, state["laser"], state["zoom"])

\* the last operation was a save, not cut short by a stop of the process, of
\* a table that has a column beyond the seven fieldnames
SavedExtraColumns ==
    /\ lastOp.name = "save_etl_parameters_to_csv"
    /\ lastOp.err # "Crash"
    /\ \E i \in 1..Len(lastOp.old) : ~(DOMAIN lastOp.old[i] \subseteq fieldnames)

\* C17: a save of a table that has columns beyond the seven fieldnames returns
\* without error, and every row of the saved table has those columns with the
\* values they had.
C17_ExtraColumnsKept ==
    SavedExtraColumns =>
        /\ lastOp.err = "none"
        /\ state["ETL_cfg_file"] \in DOMAIN files
        /\ LET new == files[state["ETL_cfg_file"]]
           IN  /\ Len(new) = Len(lastOp.old)
               /\ \A i \in 1..Len(lastOp.old) :
                    \A f \in DOMAIN lastOp.old[i] \ fieldnames :
                        /\ f \in DOMAIN new[i]
                        /\ new[i][f] = lastOp.old[i][f]

\* C18: wherever the process stops during a save of an existing table, and
\* when the save ends, the calibration path holds a complete table: the table
\* the save read or the table it writes.
C18_AtomicUnderCrash ==
    (/\ lastOp.name = "save_etl_parameters_to_csv"
     /\ lastOp.err # "FileNotFoundError") =>
        /\ state["ETL_cfg_file"] \in DOMAIN files
        /\ files[state["ETL_cfg_file"]] \in {lastOp.old, lastOp.new}

\* a step that is a load of the table for the current (laser, zoom)
ReloadStep ==
    /\ HandlerStep
    /\ lastOp'.dict \in
         { << <<"set_etls_according_to_zoom", state["zoom"]>> >>,
           << <<"set_etls_according_to_laser", state["laser"]>> >> }

\* C19: when a save has returned and the table it read has a row for the
\* current (laser, zoom), a load for the same (laser, zoom) directly after it
\* raises no error and leaves the four in-memory lens values as they were
\* before the save.
C19_RoundTrip ==
    [][ (/\ Saved
         /\ MatchingRows(lastOp.old, state["laser"], state["zoom"]) # {}
         /\ ReloadStep)
        => (/\ lastOp'.err = "none"
            /\ LensValues(state') = LensValues(state)) ]_vars

\* a load for the current (laser, zoom) has read back lens values that a save
\* had written to the table
C19_Witness ==
    /\ lastOp.name = "state_request_handler"
    /\ lastOp.err = "none"
    /\ lastOp.dict = << <<"set_etls_according_to_zoom", state["zoom"]>> >>
    /\ state["ETL_cfg_file"] \in DOMAIN files
    /\ \E i \in MatchingRows(files[state["ETL_cfg_file"]],
                              state["laser"], state["zoom"]) :
          /\ RowLensValues(files[state["ETL_cfg_file"]][i])
                # RowLensValues(InitialTable[i])
          /\ RowLensValues(files[state["ETL_cfg_file"]][i]) = LensValues(state)

\* C34: a save that returns leaves the Objective, Wavelength and Zoom fields
\* of each row matching the current (laser, zoom) as they were in the table
\* it read.
C34_KeyFieldsOfMatchingRowKept ==
    Saved =>
        /\ state["ETL_cfg_file"] \in DOMAIN files
        /\ LET old == lastOp.old
               new == files[state["ETL_cfg_file"]]
           IN  /\ Len(new) = Len(old)
               /\ \A i \in MatchingRows(old, state["laser"], state["zoom"]) :
                     /\ new[i].Objective = old[i].Objective
                     /\ new[i].Wavelength = old[i].Wavelength
                     /\ new[i].Zoom = old[i].Zoom

\* a step that is a save which the process did not stop in, of a table that
\* has no row for the current (laser, zoom)
SaveStepWithoutMatch ==
    /\ lastOp'.name = "save_etl_parameters_to_csv"
    /\ lastOp'.err # "Crash"
    /\ state["ETL_cfg_file"] \in DOMAIN files
    /\ MatchingRows(files[state["ETL_cfg_file"]],
                    state["laser"], state["zoom"]) = {}

\* C35: when no row of the table matches the current (laser, zoom), a save
\* leaves the table at the calibration path with the same rows in the same
\* order, and the four in-memory lens values as they were.
C35_NoMatchKeepsTable ==
    [][ SaveStepWithoutMatch
        => /\ state["ETL_cfg_file"] \in DOMAIN files'
           /\ files'[state["ETL_cfg_file"]] = files[state["ETL_cfg_file"]]
           /\ LensValues(state') = LensValues(state) ]_vars

\* a save returned for a configured laser line that has no row in a table
\* of two rows, after the lens values were edited
C35_Witness ==
    /\ Saved
    /\ state["laser"] = "561nm"
    /\ MatchingRows(lastOp.old, state["laser"], state["zoom"]) = {}
    /\ Len(lastOp.old) = 2
    /\ files[state["ETL_cfg_file"]] = lastOp.old
    /\ state["etl_l_amplitude"] = 60

-----------------------------------------------------------------------------
(* Recompute *)

\* C20: in every state that state_request_handler calls can reach,
\* create_waveforms produces both bundled buffers without error, and a second
\* create_waveforms directly after it leaves both bundled buffers as the first
\* call made them.
C20_IdempotentAndTotal ==
    \E first \in { create_waveforms(state, wf) } :
        /\ first.err = "none"
        /\ \E second \in { create_waveforms(state, first.wf) } :
              /\ second.err = "none"
              /\ second.wf.galvo_and_etl_waveforms =
                    first.wf.galvo_and_etl_waveforms
              /\ second.wf.laser_waveforms = first.wf.laser_waveforms

-----------------------------------------------------------------------------
(* Frame of the handler branches *)

\* a step that is state_request_handler({key: value}) for some value
KeyStep(key) ==
    /\ HandlerStep
    /\ Len(lastOp'.dict) = 1
    /\ lastOp'.dict[1][1] = key

\* the stored parameters outside the set keys are the same after the step
FrameOutside(keys) ==
    /\ DOMAIN state' = DOMAIN state
    /\ \A k \in DOMAIN state \ keys : state'[k] = state[k]

\* C21 (as stated): set_etls_according_to_zoom and set_etls_according_to_laser
\* change no stored parameter other than the four lens values.
C21_OnlyLensValuesChange ==
    [][ (KeyStep("set_etls_according_to_zoom")
         \/ KeyStep("set_etls_according_to_laser"))
        => FrameOutside(LensKeys) ]_vars

\* C21 (amended): set_etls_according_to_zoom changes no stored parameter other
\* than the four lens values (the zoom it is given is not stored);
\* set_etls_according_to_laser changes no stored parameter other than the four
\* lens values and the selected laser, which becomes the laser it is given.
C21_OnlyLensValuesAndLaserChange ==
    [][ /\ KeyStep("set_etls_according_to_zoom") => FrameOutside(LensKeys)
        /\ KeyStep("set_etls_according_to_laser") =>
              /\ FrameOutside(LensKeys \cup {"laser"})
              /\ state'["laser"] = lastOp'.dict[1][2] ]_vars

\* set_etls_according_to_zoom has loaded the lens values of another row
C21_Witness ==
    /\ lastOp.name = "state_request_handler"
    /\ lastOp.err = "none"
    /\ lastOp.dict = << <<"set_etls_according_to_zoom", "2x">> >>
    /\ state["zoom"] = "1x"
    /\ \E i \in MatchingRows(InitialTable, state["laser"], "2x") :
          LensValues(state) = RowLensValues(InitialTable[i])

-----------------------------------------------------------------------------
(* Dispatch of the handler *)

\* C29: the key 'laser' changes no stored parameter other than the selected
\* laser (in particular none of the four lens values), and the keys 'zoom',
\* 'to', 'e' and 'exposure_time', which no branch lists, change no stored
\* parameter and no buffer.
C29_KeysDispatchExactly ==
    [][ /\ KeyStep("laser") => FrameOutside({"laser"})
        /\ \A key \in {"zoom", "to", "e", "exposure_time"} :
              KeyStep(key) => (state' = state /\ wf' = wf) ]_vars

-----------------------------------------------------------------------------
(* Calibration after a change of zoom and laser *)

\* a step set_etls_according_to_laser(l) that follows a successful
\* set_etls_according_to_zoom(z)
ZoomThenLaserStep ==
    /\ lastOp.name = "state_request_handler"
    /\ lastOp.err = "none"
    /\ Len(lastOp.dict) = 1
    /\ lastOp.dict[1][1] = "set_etls_according_to_zoom"
    /\ KeyStep("set_etls_according_to_laser")

\* C30: after set_etls_according_to_zoom(z) followed by
\* set_etls_according_to_laser(l), where the table has a row for (l, z), the
\* four lens values in memory are the values of row (l, z).
C30_CalibrationFollowsZoomAndLaser ==
    [][ ZoomThenLaserStep =>
          \A i \in MatchingRows(files[CfgPath], lastOp'.dict[1][2],
                                 lastOp.dict[1][2]) :
              LensValues(state') = RowLensValues(files[CfgPath][i]) ]_vars

-----------------------------------------------------------------------------
(* Buffers and the configured number of samples *)

\* C31: whenever write_waveforms_to_tasks has written the two bundled buffers
\* to their tasks, the number of columns of each buffer is the samps_per_chan
\* that create_tasks configured on the task, whatever state_request_handler
\* calls came between create_tasks and the write.
C31_BufferMatchesConfiguredSamples ==
    (/\ lastOp.name = "write_waveforms_to_tasks"
     /\ lastOp.err = "none")
    => /\ Cols(hw.buf["galvo_etl_task"])
             = {hw.samps_per_chan["galvo_etl_task"]}
       /\ Cols(hw.buf["laser_task"]) = {hw.samps_per_chan["laser_task"]}

-----------------------------------------------------------------------------
(* Selection of a laser line that is not configured *)

\* C32: a call that selects a laser line outside the laser designation
\* table, through the key 'laser' or 'set_etls_according_to_laser', raises
\* an error and leaves the selected laser, every stored parameter and both
\* bundled buffers as they were before the call.
C32_UnknownLaserLeavesNoTrace ==
    [][ ( /\ KeyStep("laser") \/ KeyStep("set_etls_according_to_laser")
          /\ lastOp'.dict[1][2] \notin DOMAIN laser_designation )
        => /\ lastOp'.err # "none"
           /\ state' = state
           /\ wf'.galvo_and_etl_waveforms = wf.galvo_and_etl_waveforms
           /\ wf'.laser_waveforms = wf.laser_waveforms ]_vars

-----------------------------------------------------------------------------
(* Parameters that do not shape the laser pulse *)

LaserKeysWithoutEffect ==
    {"laser_r_delay_percent", "laser_r_pulse_percent",
     "laser_l_max_amplitude", "laser_r_max_amplitude"}

\* C33: setting laser_r_delay_percent, laser_r_pulse_percent,
\* laser_l_max_amplitude or laser_r_max_amplitude stores the value and leaves
\* both bundled buffers as they were (the pulse of the selected line is
\* shaped by laser_l_delay_percent and laser_l_pulse_percent).
C33_RightAndMaxKeysLeaveBuffers ==
    [][ \A key \in LaserKeysWithoutEffect :
          KeyStep(key)
          => /\ state'[key] = lastOp'.dict[1][2]
             /\ wf'.galvo_and_etl_waveforms = wf.galvo_and_etl_waveforms
             /\ wf'.laser_waveforms = wf.laser_waveforms ]_vars

\* the same for the laser buffer alone
LaserBufferUntouchedByRightAndMaxKeys ==
    [][ \A key \in LaserKeysWithoutEffect :
          KeyStep(key)
          => /\ state'[key] = lastOp'.dict[1][2]
             /\ wf'.laser_waveforms = wf.laser_waveforms ]_vars

-----------------------------------------------------------------------------
(* Row order of the galvo/lens buffer *)

-----------------------------------------------------------------------------
(* Camera trigger timing *)

\* C23: create_tasks succeeds for every camera_delay_percent and
\* camera_pulse_percent in [0,100], and the initial delay plus the high time
\* it configures on the camera trigger does not exceed the sweep time (all in
\* units of 10 microseconds).
C23_CameraPulseWithinSweep ==
    lastOp.name = "create_tasks" =>
        /\ lastOp.err = "none"
        /\ hw.co_pulse[1] + hw.co_pulse[2] <= 100 * state["sweeptime"]

\* no DAQ object
NoDAQ ==
    /\ state = << >>
    /\ wf = NoWaveforms
    /\ files = << >>
    /\ hw = NoHardware
    /\ lastOp = OpRecord("-", "none", << >>, NoCalls, 0, <<"-", "none">>)
    /\ nsets = 0
    /\ ncreates = 0
    /\ nfaults = 0

-----------------------------------------------------------------------------
(* Buffers of the armed tasks *)

AnalogOutputTasks == {"galvo_etl_task", "laser_task"}

\* C25: the galvo/lens task and the laser task are Armed only when a buffer
\* has been written to them since they were created.
C25_ArmedOnlyWithBuffer ==
    \A t \in AnalogOutputTasks : hw.st[t] = "Armed" => hw.buf[t] # << >>

-----------------------------------------------------------------------------
(* Master trigger line *)

\* the number of low-to-high transitions in a sequence of line values
RisingEdges(line) ==
    Cardinality({i \in 1..(Len(line) - 1) : ~line[i] /\ line[i + 1]})

\* the writes of the master trigger that a method made
TriggerWrites(lo) ==
    {i \in 1..Len(lo.calls) :
        lo.calls[i] = <<"master_trigger_task", "write_auto_start">>}

\* C26: a run_tasks call writes the master trigger at most once, and exactly
\* once when it returns without error; what it writes is low, high, high,
\* high, low, which has one rising edge; the values last written to the line
\* always end low.
C26_OnePulsePerRun ==
    /\ lastOp.name = "run_tasks" =>
          /\ Cardinality(TriggerWrites(lastOp)) <= 1
          /\ lastOp.err = "none" => Cardinality(TriggerWrites(lastOp)) = 1
          /\ lastOp.fired =>
                /\ hw.line = << FALSE, TRUE, TRUE, TRUE, FALSE >>
                /\ RisingEdges(hw.line) = 1
    /\ lastOp.name # "run_tasks" => TriggerWrites(lastOp) = {}
    /\ hw.line # << >> => ~hw.line[Len(hw.line)]

\* run_tasks has fired a sweep that every slave task delivered
C26_Witness ==
    /\ lastOp.name = "run_tasks"
    /\ lastOp.err = "none"
    /\ lastOp.fired
    /\ lastOp.delivered = SlaveTasks
    /\ RisingEdges(hw.line) = 1

-----------------------------------------------------------------------------
(* Stage_GUI_Controller (view/main_window_content/stage_control/            *)
(* stage_gui_controller.py) with the timers of its view (Tk after /         *)
(* after_cancel) and the execute calls its parent controller receives.      *)
(* Time is in milliseconds.                                                 *)

StageAxes == {"x", "y", "z", "theta", "f"}

\* self.view.after(1000, ...)
position_callback_delay == 1000

\* self.event_id[axis] of an axis without event: None
None == 0

\* what get_position_val and get_step_val return for a name that is not an
\* axis: None
NoVal == "None"

\* the frames of the view that hold a step size (spinval); the x and the y
\* buttons share the one of x_y_frame
StepFrames == {"x_y_frame", "z_frame", "theta_frame", "focus_frame"}

\* get_step_val(axis): the frame whose spinval is the step of the axis
get_step_val(axis) ==
    CASE axis \in {"x", "y"} -> "x_y_frame"
      [] axis = "z" -> "z_frame"
      [] axis = "theta" -> "theta_frame"
      [] axis = "f" -> "focus_frame"
      [] OTHER -> NoVal

\* get_position_val(axis): the axis whose variable of position_frame it is
get_position_val(axis) == IF axis \in StageAxes THEN axis ELSE NoVal

\* After construction: the position variables hold 0, no event id, no timer.
\* spinval: the step size of each frame.
\* timers: the pending after-events of the view, [id, axis, due, set];
\* next_id: the number of the next after-event.  Observed, not part of the
\* object: executed (the execute calls received, with the latest value
\* written to the axis and the time of that write), last_write, last_value,
\* unsent (written since the last execute for the axis), nwrites (the calls
\* that wrote a position).
StageConstructed ==
    [constructed |-> TRUE,
     position |-> [a \in StageAxes |-> 0],
     spinval |-> [f \in StepFrames |-> 1],
     event_id |-> [a \in StageAxes |-> None],
     timers |-> {},
     next_id |-> 1,
     now |-> 0,
     executed |-> << >>,
     last_write |-> [a \in StageAxes |-> 0],
     last_value |-> [a \in StageAxes |-> 0],
     unsent |-> [a \in StageAxes |-> FALSE],
     nwrites |-> 0]

\* view.after_cancel(id): an id that is not pending is ignored
after_cancel(timers, id) == {t \in timers : t.id # id}

\* (variant: the pending event of the axis is not cancelled)
position_callback_without_cancel(sg, axis) ==
    [sg EXCEPT !.event_id[axis] = sg.next_id,
               !.timers = sg.timers \cup
                    { [id |-> sg.next_id, axis |-> axis,
                       due |-> sg.now + position_callback_delay] },
               !.next_id = sg.next_id + 1]

\* the handler that position_callback(axis) returns: cancel the event of the
\* axis if there is one, schedule a new one
position_callback(sg, axis) ==
    [sg EXCEPT !.event_id[axis] = sg.next_id,
               !.timers =
                    (IF sg.event_id[axis] # None
                     THEN after_cancel(sg.timers, sg.event_id[axis])
                     ELSE sg.timers)
                    \cup { [id |-> sg.next_id, axis |-> axis,
                            due |-> sg.now + position_callback_delay] },
               !.next_id = sg.next_id + 1]

\* position_val.set(value): the variable is written, then its write trace runs
SetPositionVal(sg, axis, value) ==
    position_callback(
        [sg EXCEPT !.position[axis] = value,
                   !.last_write[axis] = sg.now,
                   !.last_value[axis] = value,
                   !.unsent[axis] = TRUE],
        axis)

\* the loop of set_position over the items of the dict, in the order of the
\* dict: a name that is not an axis has no variable and is skipped
RECURSIVE SetPositions(_, _)
SetPositions(sg, postion) ==
    IF postion = << >> THEN sg
    ELSE SetPositions(
             IF get_position_val(Head(postion)[1]) # NoVal
             THEN SetPositionVal(sg, Head(postion)[1], Head(postion)[2])
             ELSE sg,
             Tail(postion))

\* the loop of set_step_size over the items of the dict
RECURSIVE SetStepSizes(_, _)
SetStepSizes(sg, steps) ==
    IF steps = << >> THEN sg
    ELSE SetStepSizes(
             IF get_step_val(Head(steps)[1]) # NoVal
             THEN [sg EXCEPT !.spinval[get_step_val(Head(steps)[1])] =
                                  Head(steps)[2]]
             ELSE sg,
             Tail(steps))

StageStep(sg) ==
    /\ stage' = sg
    /\ UNCHANGED <<state, wf, files, hw, lastOp, nsets, ncreates, nfaults,
                   inflight, popup>>

\* set_position(postion), postion a dict from axis names to values
set_position(postion) ==
    /\ stage.nwrites < MaxWrites
    /\ StageStep([SetPositions(stage, postion)
                    EXCEPT !.nwrites = stage.nwrites + 1])

\* set_step_size(steps), steps a dict from axis names to step sizes
set_step_size(steps) ==
    /\ stage.constructed
    /\ StageStep(SetStepSizes(stage, steps))

\* the command of an up button
up_btn_handler(axis) ==
    /\ stage.nwrites < MaxWrites
    /\ axis \in StageAxes
    /\ StageStep([SetPositionVal(stage, axis,
                                 stage.position[axis]
                                 + stage.spinval[get_step_val(axis)])
                    EXCEPT !.nwrites = stage.nwrites + 1])

\* the command of a down button
down_btn_handler(axis) ==
    /\ stage.nwrites < MaxWrites
    /\ axis \in StageAxes
    /\ StageStep([SetPositionVal(stage, axis,
                                 stage.position[axis]
                                 - stage.spinval[get_step_val(axis)])
                    EXCEPT !.nwrites = stage.nwrites + 1])

\* the command of the zero button of z, theta or focus
zero_btn_handler(axis) ==
    /\ stage.nwrites < MaxWrites
    /\ axis \in {"z", "theta", "f"}
    /\ StageStep([SetPositionVal(stage, axis, 0)
                    EXCEPT !.nwrites = stage.nwrites + 1])

\* the command of the zero button of x and y
xy_zero_btn_handler ==
    /\ stage.nwrites < MaxWrites
    /\ StageStep([SetPositionVal(SetPositionVal(stage, "x", 0), "y", 0)
                    EXCEPT !.nwrites = stage.nwrites + 1])

\* a pending after-event that is due runs:
\* parent_controller.execute('stage', position_var.get(), axis)
StageTimerFires ==
    \E t \in stage.timers :
        /\ t.due <= stage.now
        /\ StageStep([stage EXCEPT
                !.timers = stage.timers \ {t},
                !.executed = Append(stage.executed,
                    [command |-> "stage", value |-> stage.position[t.axis],
                     axis |-> t.axis, time |-> stage.now,
                     latest |-> stage.last_value[t.axis],
                     written |-> stage.last_write[t.axis]]),
                !.unsent[t.axis] = FALSE])

\* time passes (an event that is due can run late)
StageTick ==
    /\ stage.now + TickMs <= MaxTime
    /\ StageStep([stage EXCEPT !.now = stage.now + TickMs])

InitStage ==
    /\ NoDAQ
    /\ inflight = FALSE
    /\ stage = StageConstructed
    /\ popup = NoPopup

\* the dicts passed to set_position: one axis, and two axes with a name that
\* is not an axis ("w") in one call
PositionDictInputs ==
    { << <<"x", 1>> >>,
      << <<"w", 1>>, <<"theta", 1>>, <<"x", 2>> >> }

\* the dict passed to set_step_size: a name that is not an axis, and x (whose
\* step is also the step of y)
StepDictInputs == { << <<"w", 3>>, <<"x", 2>> >> }

\* the buttons that are pressed
UpButtons == {"y"}
DownButtons == {"y"}
ZeroButtons == {"theta"}

NextStage ==
    \/ \E postion \in PositionDictInputs : set_position(postion)
    \/ \E steps \in StepDictInputs : set_step_size(steps)
    \/ \E axis \in UpButtons : up_btn_handler(axis)
    \/ \E axis \in DownButtons : down_btn_handler(axis)
    \/ \E axis \in ZeroButtons : zero_btn_handler(axis)
    \/ xy_zero_btn_handler
    \/ StageTimerFires
    \/ StageTick

SpecStage == InitStage /\ [][NextStage]_vars

\* the pending after-events of an axis
PendingMoves(axis) == {t \in stage.timers : t.axis = axis}

\* C27: at most one move event is pending per axis; an axis has a pending
\* event exactly when it was written since its last execute call (so every
\* burst of writes ends in one call, and a write on another axis cancels
\* nothing); every execute('stage', value, axis) call carries the value last
\* written to the axis and comes no earlier than 1000 ms after that write.
C27_DebouncedPerAxis ==
    /\ \A axis \in StageAxes :
          /\ Cardinality(PendingMoves(axis)) <= 1
          /\ stage.unsent[axis] <=> PendingMoves(axis) # {}
    /\ \A i \in 1..Len(stage.executed) :
          /\ stage.executed[i].value = stage.executed[i].latest
          /\ stage.executed[i].time - stage.executed[i].written >= 1000

\* x was written twice in a burst and moved once, with the second value,
\* while a move of y that was requested in between is still pending
C27_Witness ==
    /\ stage.nwrites = 3
    /\ stage.position["x"] = 2
    /\ stage.position["y"] = 1
    /\ Len(stage.executed) = 1
    /\ stage.executed[1].axis = "x"
    /\ stage.executed[1].value = 2
    /\ stage.executed[1].written >= 500
    /\ PendingMoves("y") # {}

(***************************************************************************)
(* WaveformPopupController (waveform_popup_controller.py).                 *)
(*                                                                         *)
(* The popup edits the waveform constants of the configuration in place:   *)
(* rf is resolution_info["remote_focus_constants"], keyed by               *)
(* <<resolution, mag, laser>>, and galvo_constants is                      *)
(* resolution_info["galvo_constants"] (self.galvo_setting is the same      *)
(* object), keyed by <<galvo, resolution, mag>>.  The Tk variables of the  *)
(* view are keyed by <<device, parameter>> (the source's names are         *)
(* laser + " Amp", laser + " Off", galvo + " Amp", ...).  Values are       *)
(* integers; an empty entry is not among the inputs of the laser and       *)
(* galvo variables.                                                        *)
(***************************************************************************)

\* list(resolution_info["remote_focus_constants"].keys())
PopupModes == <<"low", "high">>

\* list(resolution_info["remote_focus_constants"][resolution].keys())
PopupMags(resolution) ==
    IF resolution = "low" THEN <<"1x", "2x">> ELSE <<"N/A">>

\* configuration_controller.lasers_info
PopupLasers == <<"488nm", "561nm">>

\* [f"Galvo {i}" for i in range(len(galvo_dict))] of a microscope
PopupGalvos(resolution) == <<"Galvo 0">>

SeqSet(s) == {s[i] : i \in 1..Len(s)}

RfKeys ==
    {k \in SeqSet(PopupModes) \X {"1x", "2x", "N/A"} \X SeqSet(PopupLasers) :
        k[2] \in SeqSet(PopupMags(k[1]))}

GalvoKeys ==
    {k \in {"Galvo 0"} \X SeqSet(PopupModes) \X {"1x", "2x", "N/A"} :
        /\ k[3] \in SeqSet(PopupMags(k[2]))
        /\ k[1] \in SeqSet(PopupGalvos(k[2]))}

\* the variables with a write trace on func_laser or func_galvo
PopupVariables ==
    (SeqSet(PopupLasers) \X {"amplitude", "offset"})
    \cup ({"Galvo 0"} \X {"amplitude", "offset", "frequency"})

\* the entries of Delay, Duty and Smoothing
WaveformParameters == {"Delay", "Duty", "Smoothing"}

\* the waveform constants the popup is opened on: every amplitude differs
\* from every other and from 0
RemoteFocusConstants ==
    [k \in RfKeys |->
        [amplitude |-> (CASE k[2] = "1x" -> 10 [] k[2] = "2x" -> 20
                          [] OTHER -> 30)
                       + (IF k[3] = "488nm" THEN 1 ELSE 2),
         offset |-> 5]]

GalvoConstants ==
    [k \in GalvoKeys |->
        [amplitude |-> (CASE k[3] = "1x" -> 40 [] k[3] = "2x" -> 50
                          [] OTHER -> 60),
         offset |-> 6,
         frequency |-> 3]]

\* self.view.popup.after(500, ...)
popup_delay == 500

\* self.amplitude_dict = None
NoAmplitudes ==
    [present |-> FALSE, resolution |-> "None", mag |-> "None",
     amp |-> [d \in SeqSet(PopupLasers) \cup {"Galvo 0"} |-> 0]]

NoParameters == [delay |-> 0, duty_cycle |-> 0, smoothing |-> 0]

\* the amplitudes of the waveform constants
Amplitudes(rf, galvo_constants) ==
    [rf |-> [k \in DOMAIN rf |-> rf[k].amplitude],
     galvo |-> [k \in DOMAIN galvo_constants |->
                    galvo_constants[k].amplitude]]

\* After __init__.  timers: the pending after-events of the popup window,
\* [id, what, arg, due]; saved: the content of the waveform constants file.
\* Observed, not part of the object: executed (the execute calls the parent
\* controller received), before (the constants at the last disabling),
\* last (the last event), nevents, unsent_resolution (a change of a remote
\* focus constant was accepted and no execute('update_setting', 'resolution')
\* call has followed it yet), user (per laser and galvo constant, the
\* amplitude that was loaded from the constants or last written by the user).
PopupConstructed ==
    [constructed |-> TRUE,
     rf |-> RemoteFocusConstants,
     galvo_constants |-> GalvoConstants,
     resolution |-> "None",
     mag |-> "None",
     galvos |-> << >>,
     update_galvo_device_flag |-> FALSE,
     waveforms_enabled |-> TRUE,
     amplitude_dict |-> NoAmplitudes,
     event_id |-> None,
     mode_widget |-> "",
     mag_widget |-> "",
     variables |-> [v \in PopupVariables |-> 0],
     widget_state |-> [v \in PopupVariables |-> "normal"],
     entered |-> {},
     parameters |-> NoParameters,
     toggle_state |-> "normal",
     toggle_text |-> "Disable Waveforms",
     resolution_value |-> <<"None", "None">>,
     timers |-> {},
     next_id |-> 1,
     now |-> 0,
     saved |-> [written |-> FALSE, rf |-> RemoteFocusConstants,
                galvo_constants |-> GalvoConstants,
                user |-> Amplitudes(RemoteFocusConstants, GalvoConstants)],
     user |-> Amplitudes(RemoteFocusConstants, GalvoConstants),
     closed |-> FALSE,
     executed |-> << >>,
     before |-> [taken |-> FALSE, rf |-> RemoteFocusConstants,
                 galvo_constants |-> GalvoConstants],
     last |-> "__init__",
     nevents |-> 0,
     unsent_resolution |-> FALSE]

\* popup.after(500, f): a new after-event; cancel: the pending event of
\* self.event_id is cancelled first; store: the id is kept in self.event_id
PopupAfter(pc, what, arg, cancel, store) ==
    CHOOSE out \in
        { [p EXCEPT
            !.timers =
                (IF cancel /\ p.event_id # None
                 THEN after_cancel(p.timers, p.event_id)
                 ELSE p.timers)
                \cup { [id |-> p.next_id, what |-> what, arg |-> arg,
                        due |-> p.now + popup_delay] },
            !.event_id = IF store THEN p.next_id ELSE p.event_id,
            !.next_id = p.next_id + 1] : p \in { pc } } : TRUE

\* the trace that update_remote_focus_settings returns
func_laser(pc, laser, remote_focus_name) ==
    CHOOSE out \in
        { IF p.rf[<<p.resolution, p.mag, laser>>][remote_focus_name]
                # p.variables[<<laser, remote_focus_name>>]
          THEN PopupAfter(
                 [p EXCEPT
                    !.rf[<<p.resolution, p.mag, laser>>][remote_focus_name] =
                        p.variables[<<laser, remote_focus_name>>],
                    !.unsent_resolution = TRUE],
                 "resolution", NoParameters, TRUE, TRUE)
          ELSE p : p \in { pc } } : TRUE

\* the trace that update_galvo_setting returns
func_galvo(pc, galvo_name, parameter) ==
    CHOOSE out \in
        { IF ~p.update_galvo_device_flag
          THEN p
          ELSE IF p.galvo_constants[<<galvo_name, p.resolution, p.mag>>]
                        [parameter]
                    # p.variables[<<galvo_name, parameter>>]
          THEN PopupAfter(
                 [p EXCEPT
                    !.galvo_constants[<<galvo_name, p.resolution, p.mag>>]
                                     [parameter] =
                        p.variables[<<galvo_name, parameter>>]],
                 "galvo", NoParameters, TRUE, TRUE)
          ELSE p : p \in { pc } } : TRUE

\* variable.set(value): the variable is written, then its write trace runs
SetVariable(pc, device, parameter, value) ==
    IF device \in SeqSet(PopupLasers)
    THEN func_laser([pc EXCEPT !.variables[<<device, parameter>>] = value],
                    device, parameter)
    ELSE func_galvo([pc EXCEPT !.variables[<<device, parameter>>] = value],
                    device, parameter)

\* the trace of Delay, Duty and Smoothing: float() of an empty entry raises
\* ValueError and nothing is scheduled; the pending event is not cancelled
update_waveform_parameters(pc) ==
    IF pc.entered # WaveformParameters
    THEN pc
    ELSE PopupAfter(pc, "waveform_parameters", pc.parameters, FALSE, TRUE)

\* (variant: the galvo amplitudes are not put back)
restore_amplitude_lasers_only(pc) ==
    CHOOSE out \in
        { IF ~p.amplitude_dict.present
          THEN [p EXCEPT !.toggle_text = "Disable Waveforms",
                         !.waveforms_enabled = TRUE]
          ELSE [p EXCEPT
                  !.toggle_text = "Disable Waveforms",
                  !.waveforms_enabled = TRUE,
                  !.rf = [k \in DOMAIN p.rf |->
                            IF /\ k[1] = p.amplitude_dict.resolution
                               /\ k[2] = p.amplitude_dict.mag
                            THEN [p.rf[k] EXCEPT
                                    !.amplitude = p.amplitude_dict.amp[k[3]]]
                            ELSE p.rf[k]],
                  !.widget_state =
                        [v \in DOMAIN p.widget_state |->
                            IF /\ v[2] = "amplitude"
                               /\ v[1] \in SeqSet(PopupLasers)
                                           \cup SeqSet(p.galvos)
                            THEN "normal"
                            ELSE p.widget_state[v]],
                  !.amplitude_dict = NoAmplitudes] : p \in { pc } } : TRUE

restore_amplitude(pc) ==
    CHOOSE out \in
        { IF ~p.amplitude_dict.present
          THEN [p EXCEPT !.toggle_text = "Disable Waveforms",
                         !.waveforms_enabled = TRUE]
          ELSE [p EXCEPT
                  !.toggle_text = "Disable Waveforms",
                  !.waveforms_enabled = TRUE,
                  !.rf = [k \in DOMAIN p.rf |->
                            IF /\ k[1] = p.amplitude_dict.resolution
                               /\ k[2] = p.amplitude_dict.mag
                            THEN [p.rf[k] EXCEPT
                                    !.amplitude = p.amplitude_dict.amp[k[3]]]
                            ELSE p.rf[k]],
                  !.galvo_constants =
                        [k \in DOMAIN p.galvo_constants |->
                            IF /\ k[1] \in SeqSet(p.galvos)
                               /\ k[2] = p.amplitude_dict.resolution
                               /\ k[3] = p.amplitude_dict.mag
                            THEN [p.galvo_constants[k] EXCEPT
                                    !.amplitude = p.amplitude_dict.amp[k[1]]]
                            ELSE p.galvo_constants[k]],
                  !.widget_state =
                        [v \in DOMAIN p.widget_state |->
                            IF /\ v[2] = "amplitude"
                               /\ v[1] \in SeqSet(PopupLasers)
                                           \cup SeqSet(p.galvos)
                            THEN "normal"
                            ELSE p.widget_state[v]],
                  !.amplitude_dict = NoAmplitudes] : p \in { pc } } : TRUE

\* the galvo widgets of the microscope are set to "normal"
configure_widget_range(pc) ==
    CHOOSE out \in
        { [p EXCEPT !.widget_state =
                [v \in DOMAIN p.widget_state |->
                    IF v[1] \in SeqSet(p.galvos)
                    THEN "normal"
                    ELSE p.widget_state[v]]] : p \in { pc } } : TRUE

\* the laser loop of show_laser_info, from laser i on
RECURSIVE ShowLasers(_, _)
ShowLasers(pc, i) ==
    IF i > Len(PopupLasers)
    THEN pc
    ELSE ShowLasers(
           CHOOSE out \in
             { SetVariable(
                 SetVariable(p, PopupLasers[i], "amplitude",
                     p.rf[<<p.resolution, p.mag, PopupLasers[i]>>].amplitude),
                 PopupLasers[i], "offset",
                 p.rf[<<p.resolution, p.mag, PopupLasers[i]>>].offset)
               : p \in { pc } } : TRUE,
           i + 1)

\* the galvo loop of show_laser_info, from galvo i on
RECURSIVE ShowGalvos(_, _)
ShowGalvos(pc, i) ==
    IF i > Len(pc.galvos)
    THEN pc
    ELSE ShowGalvos(
           CHOOSE out \in
             { SetVariable(
                 SetVariable(
                   SetVariable(p, p.galvos[i], "amplitude",
                       p.galvo_constants[<<p.galvos[i], p.resolution, p.mag>>]
                            .amplitude),
                   p.galvos[i], "offset",
                   p.galvo_constants[<<p.galvos[i], p.resolution, p.mag>>]
                        .offset),
                 p.galvos[i], "frequency",
                 p.galvo_constants[<<p.galvos[i], p.resolution, p.mag>>]
                      .frequency)
               : p \in { pc } } : TRUE,
           i + 1)

show_laser_info(pc) ==
    CHOOSE out \in
      { configure_widget_range(
          [p4 EXCEPT !.update_galvo_device_flag = TRUE,
                     !.resolution_value = <<p4.resolution, p4.mag>>])
        : p4 \in
          { ShowGalvos([p3 EXCEPT !.update_galvo_device_flag = FALSE], 1)
            : p3 \in
              { ShowLasers([p2 EXCEPT !.mag = p2.mag_widget], 1)
                : p2 \in
                  { restore_amplitude(
                        [p EXCEPT !.galvos = PopupGalvos(p.resolution)])
                    : p \in { pc } } } } } : TRUE

\* show_magnification(arg): arg is the magnification to select (an event
\* object is in no list of magnifications)
show_magnification(pc, arg) ==
    CHOOSE out \in
      { show_laser_info(
          [p EXCEPT !.resolution = p.mode_widget,
                    !.mag_widget =
                        IF arg \in SeqSet(PopupMags(p.mode_widget))
                        THEN arg
                        ELSE PopupMags(p.mode_widget)[1]])
        : p \in { restore_amplitude(pc) } } : TRUE

\* widget.set(value) of Delay, Duty or Smoothing
SetParameter(pc, name, value) ==
    update_waveform_parameters(
        [pc EXCEPT !.entered = pc.entered \cup {name},
                   !.parameters =
                        CASE name = "Delay" ->
                               [pc.parameters EXCEPT !.delay = value]
                          [] name = "Duty" ->
                               [pc.parameters EXCEPT !.duty_cycle = value]
                          [] OTHER ->
                               [pc.parameters EXCEPT !.smoothing = value]])

\* populate_experiment_values, for the microscope_name and zoom of the
\* experiment and the smoothing, delay_percent and ramp_rising_percent of
\* the remote focus device
populate_experiment_values(pc, resolution_value, zoom_value) ==
    IF pc.mode_widget = resolution_value /\ pc.mag_widget = zoom_value
    THEN pc
    ELSE CHOOSE out \in
           { SetParameter(SetParameter(SetParameter(p, "Smoothing", 0),
                                       "Delay", 7),
                          "Duty", 85)
             : p \in { show_magnification(
                         [pc EXCEPT !.mode_widget = resolution_value],
                         zoom_value) } } : TRUE

\* the laser loop of the disabling branch, from laser i on
RECURSIVE DisableLasers(_, _)
DisableLasers(pc, i) ==
    IF i > Len(PopupLasers)
    THEN pc
    ELSE DisableLasers(
           CHOOSE out \in
             { [p2 EXCEPT
                  !.widget_state[<<PopupLasers[i], "amplitude">>] = "disabled"]
               : p2 \in
                 { SetVariable(
                     [p EXCEPT !.amplitude_dict.amp[PopupLasers[i]] =
                        p.rf[<<p.resolution, p.mag, PopupLasers[i]>>]
                            .amplitude],
                     PopupLasers[i], "amplitude", 0)
                   : p \in { pc } } } : TRUE,
           i + 1)

\* the galvo loop of the disabling branch, from galvo i on
RECURSIVE DisableGalvos(_, _)
DisableGalvos(pc, i) ==
    IF i > Len(pc.galvos)
    THEN pc
    ELSE DisableGalvos(
           CHOOSE out \in
             { [p2 EXCEPT
                  !.widget_state[<<p2.galvos[i], "amplitude">>] = "disabled"]
               : p2 \in
                 { SetVariable(
                     [p EXCEPT !.amplitude_dict.amp[p.galvos[i]] =
                        p.galvo_constants[<<p.galvos[i], p.resolution, p.mag>>]
                            .amplitude],
                     p.galvos[i], "amplitude", 0)
                   : p \in { pc } } } : TRUE,
           i + 1)

toggle_waveform_state(pc) ==
    IF pc.waveforms_enabled
    THEN PopupAfter(
           [DisableGalvos(
              DisableLasers(
                [pc EXCEPT
                    !.toggle_state = "disabled",
                    !.toggle_text = "Enable Waveforms",
                    !.amplitude_dict =
                        [NoAmplitudes EXCEPT !.present = TRUE,
                                             !.resolution = pc.resolution,
                                             !.mag = pc.mag]],
                1),
              1)
            EXCEPT !.waveforms_enabled = FALSE],
           "toggle_waveform_button", NoParameters, FALSE, FALSE)
    ELSE PopupAfter(
           PopupAfter(
             show_laser_info([pc EXCEPT !.toggle_state = "disabled"]),
             "galvo", NoParameters, TRUE, TRUE),
           "toggle_waveform_button", NoParameters, FALSE, FALSE)

\* save_yaml_file("", self.resolution_info, self.waveform_constants_path)
save_waveform_constants(pc) ==
    [pc EXCEPT !.saved = [written |-> TRUE, rf |-> pc.rf,
                          galvo_constants |-> pc.galvo_constants,
                          user |-> pc.user]]

\* the window is opened on the experiment's microscope and zoom
InitPopup ==
    /\ NoDAQ
    /\ inflight = FALSE
    /\ stage = NoStage
    /\ popup = populate_experiment_values(PopupConstructed, "low", "1x")

\* an event of the window manager or of Tk is handled as a whole
PopupStep(pc, event) ==
    /\ popup' = [pc EXCEPT !.last = event]
    /\ UNCHANGED <<state, wf, files, hw, lastOp, nsets, ncreates, nfaults,
                   inflight, stage>>

PopupEvent(pc, event) ==
    /\ ~popup.closed
    /\ popup.nevents < MaxPopupEvents
    /\ PopupStep([pc EXCEPT !.nevents = popup.nevents + 1], event)

\* <<ComboboxSelected>> of the Mode widget
ModeSelected(mode) ==
    /\ mode \in SeqSet(PopupModes)
    /\ PopupEvent(show_magnification([popup EXCEPT !.mode_widget = mode],
                                     "event"),
                  "mode")

\* <<ComboboxSelected>> of the Mag widget
MagSelected(mag) ==
    /\ mag \in SeqSet(PopupMags(popup.resolution))
    /\ PopupEvent(show_laser_info([popup EXCEPT !.mag_widget = mag]), "mag")

\* the user writes a value into the entry of a laser or galvo variable
EditVariable(device, parameter, value) ==
    /\ popup.widget_state[<<device, parameter>>] = "normal"
    /\ PopupEvent(
         [SetVariable(popup, device, parameter, value) EXCEPT
            !.user =
                IF parameter # "amplitude" THEN popup.user
                ELSE IF device \in SeqSet(PopupLasers)
                THEN [popup.user EXCEPT
                        !.rf[<<popup.resolution, popup.mag, device>>] = value]
                ELSE [popup.user EXCEPT
                        !.galvo[<<device, popup.resolution, popup.mag>>] =
                            value]],
         "edit")

\* the user writes a value into the entry of Delay, Duty or Smoothing
EditParameter(name, value) ==
    /\ name \in WaveformParameters
    /\ PopupEvent(SetParameter(popup, name, value), "parameter")

\* the command of the toggle button
ToggleWaveformButton ==
    /\ popup.toggle_state = "normal"
    /\ PopupEvent(
         [toggle_waveform_state(popup) EXCEPT
            !.before = IF popup.waveforms_enabled
                       THEN [taken |-> TRUE, rf |-> popup.rf,
                             galvo_constants |-> popup.galvo_constants]
                       ELSE popup.before],
         "toggle")

\* the command of the Save button
SaveButton ==
    /\ popup.constructed
    /\ PopupEvent(save_waveform_constants(popup), "save")

\* populate_experiment_values(), called by the parent controller with the
\* microscope_name and zoom of the experiment: nothing changes when the Mode
\* and Mag widgets already show them
PopulateExperimentValues(resolution_value, zoom_value) ==
    /\ resolution_value \in SeqSet(PopupModes)
    /\ zoom_value \in SeqSet(PopupMags(resolution_value))
    /\ PopupEvent(populate_experiment_values(popup, resolution_value,
                                             zoom_value),
                  IF /\ popup.mode_widget = resolution_value
                     /\ popup.mag_widget = zoom_value
                  THEN "populate_unchanged"
                  ELSE "populate")

\* popup.dismiss: the window is destroyed, and its pending after-events
\* are deleted with it
dismiss(pc) ==
    [pc EXCEPT !.closed = TRUE, !.timers = {}]

\* WM_DELETE_WINDOW: restore_amplitude, save_waveform_constants, dismiss
CloseWindow ==
    /\ popup.constructed
    /\ PopupEvent(dismiss(save_waveform_constants(restore_amplitude(popup))),
                  "close")

\* the clock has reached the end of the time that is followed: the time is
\* then MaxPopupTime or later
PopupClockAtEnd == popup.now + TickMs > MaxPopupTime

\* a pending after-event that is due runs
PopupTimerFires ==
    \E t \in popup.timers :
        /\ t.due <= popup.now \/ PopupClockAtEnd
        /\ PopupStep(
             IF t.what = "toggle_waveform_button"
             THEN [popup EXCEPT !.timers = popup.timers \ {t},
                                !.toggle_state = "normal"]
             ELSE [popup EXCEPT
                     !.timers = popup.timers \ {t},
                     !.executed = Append(popup.executed,
                        [command |-> "update_setting", what |-> t.what,
                         arg |-> t.arg, time |-> popup.now]),
                     !.unsent_resolution =
                        IF t.what = "resolution" THEN FALSE
                        ELSE popup.unsent_resolution],
             "after")

\* time passes (an event that is due can run late)
PopupTick ==
    /\ popup.now + TickMs <= MaxPopupTime
    /\ PopupStep([popup EXCEPT !.now = popup.now + TickMs], "tick")

NextPopup ==
    \/ \E mode \in SeqSet(PopupModes) : ModeSelected(mode)
    \/ \E mag \in {"1x", "2x", "N/A"} : MagSelected(mag)
    \/ \E v \in {<<"488nm", "amplitude">>, <<"561nm", "offset">>,
                 <<"Galvo 0", "amplitude">>} :
            EditVariable(v[1], v[2], 7)
    \/ EditParameter("Delay", 9)
    \/ ToggleWaveformButton
    \/ SaveButton
    \/ \E experiment \in {<<"low", "1x">>, <<"high", "N/A">>} :
            PopulateExperimentValues(experiment[1], experiment[2])
    \/ CloseWindow
    \/ PopupTimerFires
    \/ PopupTick

SpecPopup == InitPopup /\ [][NextPopup]_vars

\* Tk runs every pending after-event of a window that stays open, and time
\* passes
SpecPopupLive ==
    /\ InitPopup
    /\ [][NextPopup]_vars
    /\ WF_vars(PopupTimerFires)
    /\ WF_vars(PopupTick)

\* the steps that restore the amplitudes of disabled waveforms
RestoringEvents == {"toggle", "mode", "mag", "populate", "close"}

\* C28: when the waveforms are disabled (the toggle has zeroed the
\* amplitudes of the current resolution and magnification) and the toggle
\* button, a mode or magnification selection (by the user or by
\* populate_experiment_values) or the closing of the window restores them, every laser and galvo amplitude of the waveform constants
\* is again what it was immediately before the disabling, and
\* waveforms_enabled is true.
C28_DisableIsReversible ==
    [][ ( /\ popup.constructed
          /\ ~popup.waveforms_enabled
          /\ popup'.nevents # popup.nevents
          /\ popup'.last \in RestoringEvents )
        => /\ popup'.waveforms_enabled
           /\ Amplitudes(popup'.rf, popup'.galvo_constants)
                = Amplitudes(popup.before.rf, popup.before.galvo_constants)
      ]_vars

\* an amplitude was edited, the waveforms were disabled (which zeroed the
\* constants) and the toggle button enabled them again
C28_Witness ==
    /\ popup.constructed
    /\ popup.last = "toggle"
    /\ popup.waveforms_enabled
    /\ popup.before.taken
    /\ popup.before.rf[<<"low", "1x", "488nm">>].amplitude = 7
    /\ popup.rf[<<"low", "1x", "488nm">>].amplitude = 7
    /\ popup.galvo_constants[<<"Galvo 0", "low", "1x">>].amplitude = 40

\* C36: every accepted change of a remote focus amplitude or offset is
\* eventually followed by an execute('update_setting', 'resolution') call,
\* whatever other changes arrive while its event is pending (as long as
\* the window is open: closing it deletes the events that are pending).
C36_ResolutionUpdateFollows ==
    (popup.constructed /\ ~popup.closed /\ popup.unsent_resolution)
        ~> (popup.constructed
            /\ (~popup.unsent_resolution \/ popup.closed))

\* C37: the waveform constants file, once written, holds for every laser
\* and galvo the amplitude that was loaded from the constants or last
\* written by the user, never a zero that the disabling of the waveforms
\* put in its place.
C37_SavedAmplitudesNeverZeroed ==
    (popup.constructed /\ popup.saved.written)
    => Amplitudes(popup.saved.rf, popup.saved.galvo_constants)
            = popup.saved.user

\* the same for the file that the closing of the window writes
SavedOnCloseNeverZeroed ==
    (popup.constructed /\ popup.closed)
    => Amplitudes(popup.saved.rf, popup.saved.galvo_constants)
            = popup.saved.user

====
